---- MODULE Spec2Model ----
(***************************************************************************)
(* A model of the judgment pipeline of devopsify.ai: the behaviour         *)
(* analyser, the judgment engine (confidence score, verdict status), the   *)
(* alert orchestrator with its 7 day cooldown, and the HTTP handlers that  *)
(* drive them (analyze, recheck, mark alert as read) over the persisted    *)
(* tables app_analyses and alerts.                                         *)
(*                                                                         *)
(* Time is counted in whole days.  An optional JavaScript value is a       *)
(* sequence of length 0 (undefined) or 1; an object whose fields may be    *)
(* absent carries the set of its absent fields in "missing", and an absent *)
(* field holds a fixed filler that no operator reads.                      *)
(***************************************************************************)
EXTENDS Integers, Sequences, FiniteSets, TLC

VARIABLES
    app_analyses,   \* table app_analyses: a sequence of rows, id = index
    alerts,         \* table alerts: a sequence of rows, id = index
    now,            \* the database clock, in days
    response,       \* the last HTTP response sent by a handler
    call,           \* the pending call of a pure function (its arguments)
    ret             \* the value that call returned

vars == <<app_analyses, alerts, now, response, call, ret>>

(***************************************************************************)
(* Bounds of the model.                                                    *)
(***************************************************************************)
MaxTime == 7        \* the clock stops here in the re-check specification
MaxReadTime == 2    \* the clock stops here in the specification of all handlers
MaxAnalyses == 1    \* rows of app_analyses
MaxAlerts == 3      \* rows of alerts
MaxDelay == 1       \* days between the history query and the inserts of a recheck
MaxDeps == 4        \* largest external_dependency_count drawn for alert diffs
MaxScoreDeps == 7   \* largest external_dependency_count drawn for scoring
MaxAge == 8         \* oldest alert, in days, of a drawn alert history
MaxCalls == 3       \* calls of the judgment functions in one run of repeated calls
MaxCallTime == 1    \* the clock stops here in the specification of repeated calls
MaxOthers == 10     \* dependencies of a drawn manifest that no detection table names
MaxRequests == 2    \* re-check requests in flight at once
MaxFiles == 11      \* ordinary source files in a drawn repository tree
MaxHistory == 1     \* alerts in a drawn alert history

(***************************************************************************)
(* Program constants.                                                      *)
(***************************************************************************)
concurrencyLimit == 10  \* const concurrencyLimit = 10
SizeCeiling == 100  \* 100 * 1024 bytes, in KB
CooldownDays == 7   \* INTERVAL '7 days'

Users == {"u1", "u2"}
Categories ==
    {"usage_growth", "cost_risk", "architecture_drift",
     "platform_suitability", "stability_regression"}
RiskLevels == {"low", "medium", "high"}

Undefined == <<>>
Some(v) == <<v>>
IsDefined(o) == Len(o) > 0
Value(o) == o[1]

(***************************************************************************)
(* shared/types.ts: BehaviorProfile and StackProfile.                      *)
(***************************************************************************)
BehaviorFields ==
    {"is_stateful", "write_heavy", "has_background_jobs", "has_file_uploads",
     "estimated_concurrency_risk", "external_dependency_count"}

BehaviorProfile(stateful, write, jobs, uploads, risk, deps) ==
    [is_stateful |-> stateful, write_heavy |-> write,
     has_background_jobs |-> jobs, has_file_uploads |-> uploads,
     estimated_concurrency_risk |-> risk, external_dependency_count |-> deps,
     missing |-> {}]

\* The object {} read back from the JSONB column behavior_profile.
EmptyBehaviorProfile ==
    [is_stateful |-> FALSE, write_heavy |-> FALSE,
     has_background_jobs |-> FALSE, has_file_uploads |-> FALSE,
     estimated_concurrency_risk |-> "low", external_dependency_count |-> 0,
     missing |-> BehaviorFields]

StackFields ==
    {"runtime", "framework", "database", "databases", "external_apis",
     "has_background_jobs", "has_file_uploads", "deployment_platform"}

\* The object {} read back from the JSONB column stack_detection.
EmptyStackProfile ==
    [runtime |-> "", framework |-> "", database |-> "", databases |-> <<>>,
     external_apis |-> <<>>, has_background_jobs |-> FALSE,
     has_file_uploads |-> FALSE, deployment_platform |-> "",
     missing |-> StackFields]

Has(obj, f) == f \notin obj.missing
\* JavaScript truthiness of an optional boolean field.
Flag(obj, f) == Has(obj, f) /\ obj[f]

(***************************************************************************)
(* services/appUnderstanding.ts: AppContent.  The text of the files is     *)
(* kept as what the analyser's regular expressions find in it: whether a   *)
(* pattern family matches and how many write and read patterns occur.      *)
(* packageJson is optional and holds the key sets of dependencies and      *)
(* devDependencies; requirements is optional and holds the lower-cased     *)
(* requirement names of requirements.txt (an empty requirements text is    *)
(* falsy in the code and is drawn as Undefined).                           *)
(***************************************************************************)
CodeSignals(state, writes, rds, jobs, uploads, pool) ==
    [state |-> state, writes |-> writes, reads |-> rds,
     jobs |-> jobs, uploads |-> uploads, pool |-> pool]

AppContent(files, code, packageJson, requirements) ==
    [files |-> files, code |-> code,
     packageJson |-> packageJson, requirements |-> requirements,
     missing |-> {}]

\* An input object that has no files property.
WithoutFiles(appContent) == [appContent EXCEPT !.missing = {"files"}]

\* What the patterns find in the empty text.
NoSignals == CodeSignals(FALSE, 0, 0, FALSE, FALSE, FALSE)

\* The outcome of a call that throws: reading a property of undefined.
TypeError == [threw |-> "TypeError"]
Threw(outcome) == "threw" \in DOMAIN outcome

\* "others" counts the dependencies whose names no detection table looks for.
PackageJson(dependencies, devDependencies, others) ==
    Some([dependencies |-> dependencies, devDependencies |-> devDependencies,
          others |-> others])

\* String.prototype.includes over the names the model draws: the pairs
\* <<s, t>> with t a proper substring of s.
ProperSubstrings ==
    {<<"@stripe/stripe-js", "stripe">>,
     <<"@sendgrid/mail", "sendgrid">>,
     <<"@aws-sdk/client-s3", "@aws-sdk">>,
     <<"@aws-sdk/client-s3", "aws-sdk">>,
     <<"firebase-admin", "firebase">>,
     <<"@google-cloud/storage", "@google-cloud">>,
     <<"psycopg2", "psycopg">>,
     <<"mysqlclient", "mysql">>,
     <<"mysql2", "mysql">>,
     <<"flask-sqlalchemy", "flask">>,
     <<"djangorestframework", "django">>}

Includes(s, t) == s = t \/ <<s, t>> \in ProperSubstrings

frameworks ==
    << <<"express", "Express">>, <<"fastify", "Fastify">>,
       <<"next", "Next.js">>, <<"nuxt", "Nuxt">>, <<"koa", "Koa">>,
       <<"hapi", "@hapi/hapi">>, <<"@nestjs/core", "NestJS">> >>

dbMapping ==
    << <<"pg", "PostgreSQL">>, <<"mongoose", "MongoDB">>,
       <<"mongodb", "MongoDB">>, <<"sqlite3", "SQLite">>,
       <<"better-sqlite3", "SQLite">>, <<"mysql2", "MySQL">>,
       <<"mysql", "MySQL">>, <<"@prisma/client", "Prisma">>,
       <<"prisma", "Prisma">> >>

apiPatterns ==
    << <<"stripe", "Stripe">>, <<"twilio", "Twilio">>,
       <<"@sendgrid/mail", "SendGrid">>, <<"sendgrid", "SendGrid">>,
       <<"aws-sdk", "AWS">>, <<"@aws-sdk", "AWS">>,
       <<"@google-cloud", "Google Cloud">>, <<"firebase", "Firebase">>,
       <<"firebase-admin", "Firebase">> >>

InSeq(x, seq) == \E i \in 1..Len(seq) : seq[i] = x

\* [...new Set(seq)]: the first occurrence of each element, in order.
RECURSIVE Dedupe(_)
Dedupe(seq) ==
    IF seq = <<>> THEN <<>>
    ELSE LET front == Dedupe(SubSeq(seq, 1, Len(seq) - 1))
             last == seq[Len(seq)]
         IN IF InSeq(last, front) THEN front ELSE Append(front, last)

\* for (const [pkg, name] of Object.entries(frameworks)) if (deps[pkg]) ... break
RECURSIVE FirstFramework(_, _)
FirstFramework(deps, i) ==
    IF i > Len(frameworks) THEN Undefined
    ELSE IF frameworks[i][1] \in deps THEN Some(frameworks[i][2])
    ELSE FirstFramework(deps, i + 1)

\* for (const [pkg, db] of Object.entries(dbMapping)) push db unless included
RECURSIVE NodeDatabases(_, _)
NodeDatabases(deps, n) ==
    IF n = 0 THEN <<>>
    ELSE LET front == NodeDatabases(deps, n - 1)
             pkg == dbMapping[n][1]
             db == dbMapping[n][2]
         IN IF pkg \in deps /\ ~InSeq(db, front) THEN Append(front, db)
            ELSE front

\* for (const [pkg, api] of Object.entries(apiPatterns)) push api if some
\* dependency name includes pkg
RECURSIVE NodeApis(_, _)
NodeApis(deps, n) ==
    IF n = 0 THEN <<>>
    ELSE LET front == NodeApis(deps, n - 1)
         IN IF \E dep \in deps : Includes(dep, apiPatterns[n][1])
            THEN Append(front, apiPatterns[n][2])
            ELSE front

DeploymentPlatform(files) ==
    IF "vercel.json" \in files THEN Some("Vercel")
    ELSE IF "replit.nix" \in files \/ ".replit" \in files THEN Some("Replit")
    ELSE IF "fly.toml" \in files THEN Some("Fly.io")
    ELSE IF "railway.json" \in files THEN Some("Railway")
    ELSE Undefined

ReqIncludes(reqs, t) == \E r \in reqs : Includes(r, t)

PythonFramework(reqs) ==
    IF ReqIncludes(reqs, "django") THEN Some("Django")
    ELSE IF ReqIncludes(reqs, "flask") THEN Some("Flask")
    ELSE IF ReqIncludes(reqs, "fastapi") THEN Some("FastAPI")
    ELSE Undefined

PythonDatabases(reqs) ==
    (IF ReqIncludes(reqs, "psycopg") THEN <<"PostgreSQL">> ELSE <<>>)
    \o (IF ReqIncludes(reqs, "pymongo") THEN <<"MongoDB">> ELSE <<>>)
    \o (IF ReqIncludes(reqs, "mysql") THEN <<"MySQL">> ELSE <<>>)

\* An optional string as (value, absent field names).
OptField(o, f) == IF IsDefined(o) THEN {} ELSE {f}
OptValue(o) == IF IsDefined(o) THEN Value(o) ELSE ""

detectStack(appContent) ==
    LET node == IsDefined(appContent.packageJson)
        python == IsDefined(appContent.requirements)
        pkg == Value(appContent.packageJson)
        deps == IF node THEN pkg.dependencies \cup pkg.devDependencies ELSE {}
        reqs == IF python THEN Value(appContent.requirements) ELSE {}
        nodeFramework == IF node THEN FirstFramework(deps, 1) ELSE Undefined
        pyFramework == IF python THEN PythonFramework(reqs) ELSE Undefined
        framework == IF IsDefined(pyFramework) THEN pyFramework ELSE nodeFramework
        nodeDbs == IF node THEN NodeDatabases(deps, Len(dbMapping)) ELSE <<>>
        databases == nodeDbs \o (IF python THEN PythonDatabases(reqs) ELSE <<>>)
        database == IF Len(databases) > 0 THEN Some(databases[1]) ELSE Undefined
        apis == IF node THEN NodeApis(deps, Len(apiPatterns)) ELSE <<>>
        platform == IF node THEN DeploymentPlatform(appContent.files) ELSE Undefined
        runtime == IF python THEN Some("Python")
                   ELSE IF node THEN Some("Node.js") ELSE Undefined
    IN IF node /\ ~Has(appContent, "files")
       THEN TypeError    \* appContent.files.has(...) inside the Node block
       ELSE
       [runtime |-> OptValue(runtime),
        framework |-> OptValue(framework),
        database |-> OptValue(database),
        databases |-> databases,
        external_apis |-> Dedupe(apis),
        has_background_jobs |->
            node /\ ({"bull", "agenda", "node-cron"} \cap deps # {}),
        has_file_uploads |->
            node /\ ({"multer", "formidable", "busboy"} \cap deps # {}),
        deployment_platform |-> OptValue(platform),
        missing |-> OptField(runtime, "runtime")
                    \cup OptField(framework, "framework")
                    \cup OptField(database, "database")
                    \cup OptField(platform, "deployment_platform")
                    \cup (IF node THEN {}
                          ELSE {"has_background_jobs", "has_file_uploads"})]

\* database.toLowerCase().includes(t) over the database names the model draws.
LowerCaseSubstrings ==
    {<<"PostgreSQL", "postgresql">>, <<"PostgreSQL", "postgres">>,
     <<"postgres", "postgres">>,
     <<"Managed MySQL", "managed">>, <<"Managed MySQL", "mysql">>,
     <<"MySQL", "mysql">>, <<"MongoDB", "mongodb">>, <<"Prisma", "prisma">>,
     <<"SQLite", "sqlite">>, <<"better-sqlite3", "sqlite">>,
     <<"flat file", "file">>,
     <<"Vercel", "vercel">>, <<"Netlify", "netlify">>,
     <<"AWS Lambda", "lambda">>,
     <<"Replit", "replit">>, <<"Railway", "railway">>, <<"Fly.io", "fly">>,
     <<"Next.js", "next">>, <<"React", "react">>}

LowerIncludes(db, t) == <<db, t>> \in LowerCaseSubstrings

IsSQLiteName(db) == LowerIncludes(db, "sqlite")

\* the risk estimate with the dependency threshold included
EstimateConcurrencyRiskFromTen(isSQLite, write_heavy, is_stateful, hasPooling, jobs, depCount) ==
    IF (isSQLite /\ write_heavy) \/ (is_stateful /\ ~hasPooling) THEN "high"
    ELSE IF jobs \/ depCount >= 10 THEN "medium"
    ELSE "low"

EstimateConcurrencyRisk(isSQLite, write_heavy, is_stateful, hasPooling, jobs, depCount) ==
    IF (isSQLite /\ write_heavy) \/ (is_stateful /\ ~hasPooling) THEN "high"
    ELSE IF jobs \/ depCount > 10 THEN "medium"
    ELSE "low"

\* codeContent is the text of all files joined: an empty file map gives the
\* empty text; a missing file map makes appContent.files.values() throw.
analyzePatterns(appContent) ==
    IF ~Has(appContent, "files") THEN TypeError ELSE
    LET code == IF appContent.files = {} THEN NoSignals ELSE appContent.code
        node == IsDefined(appContent.packageJson)
        pkg == Value(appContent.packageJson)
        depCount ==
            IF node
            THEN Cardinality(pkg.dependencies \cup pkg.devDependencies) + pkg.others
            ELSE 0
        write_heavy == code.writes > code.reads
        stackProfile == detectStack(appContent)
        isSQLite == Has(stackProfile, "database")
                    /\ IsSQLiteName(stackProfile.database)
        hasPooling == code.pool
        risk == EstimateConcurrencyRisk(isSQLite, write_heavy, code.state,
                                        hasPooling, code.jobs, depCount)
    IN BehaviorProfile(code.state, write_heavy, code.jobs, code.uploads,
                       risk, depCount)

(***************************************************************************)
(* The judgment engine: calculateLaunchConfidence and generateLaunchVerdict*)
(***************************************************************************)
\* stackProfile.database || (stackProfile.databases && stackProfile.databases[0])
StackDatabase(stackProfile) ==
    IF Has(stackProfile, "database") /\ stackProfile.database # ""
    THEN Some(stackProfile.database)
    ELSE IF Has(stackProfile, "databases") /\ Len(stackProfile.databases) > 0
    THEN Some(stackProfile.databases[1])
    ELSE Undefined

\* `${depCount}` and string + value: the text JavaScript gives a field.
NumberText(obj, f) == IF Has(obj, f) THEN ToString(obj[f]) ELSE "undefined"
StringText(obj, f) == IF Has(obj, f) THEN obj[f] ELSE "undefined"

StatefulnessPoints(behaviorProfile) ==
    IF ~Flag(behaviorProfile, "is_stateful") THEN 30 ELSE 10

\* data handling scored twice as high for a read-heavy app
DataHandlingPointsDoubled(behaviorProfile) ==
    IF ~Flag(behaviorProfile, "write_heavy") THEN 60 ELSE 10

DataHandlingPoints(behaviorProfile) ==
    IF ~Flag(behaviorProfile, "write_heavy") THEN 30 ELSE 10

\* the dependency points with the first boundary at 3 included
DependencyPointsUpToThree(behaviorProfile) ==
    LET has == Has(behaviorProfile, "external_dependency_count")
        depCount == behaviorProfile.external_dependency_count
    IN IF has /\ depCount <= 3 THEN 20
       ELSE IF has /\ depCount <= 5 THEN 10
       ELSE 5

\* A comparison with undefined is false, so an absent count takes the last branch.
DependencyPoints(behaviorProfile) ==
    LET has == Has(behaviorProfile, "external_dependency_count")
        depCount == behaviorProfile.external_dependency_count
    IN IF has /\ depCount < 3 THEN 20
       ELSE IF has /\ depCount <= 5 THEN 10
       ELSE 5

ConcurrencyPoints(behaviorProfile) ==
    LET has == Has(behaviorProfile, "estimated_concurrency_risk")
        concurrencyRisk == behaviorProfile.estimated_concurrency_risk
    IN IF has /\ concurrencyRisk = "low" THEN 20
       ELSE IF has /\ concurrencyRisk = "medium" THEN 10
       ELSE 5

DatabaseFactors(stackProfile) ==
    LET database == StackDatabase(stackProfile)
        db == Value(database)
    IN IF ~IsDefined(database) THEN <<>>
       ELSE IF LowerIncludes(db, "postgresql") \/ LowerIncludes(db, "postgres")
               \/ LowerIncludes(db, "managed")
       THEN <<"Uses managed database (lower risk)">>
       ELSE IF LowerIncludes(db, "sqlite") \/ LowerIncludes(db, "file")
       THEN <<"Uses SQLite (consider upgrade for production)">>
       ELSE <<>>

calculateLaunchConfidence(stackProfile, behaviorProfile) ==
    LET depText == NumberText(behaviorProfile, "external_dependency_count")
        s1 == StatefulnessPoints(behaviorProfile)
        s2 == DataHandlingPoints(behaviorProfile)
        s3 == DependencyPoints(behaviorProfile)
        s4 == ConcurrencyPoints(behaviorProfile)
        f1 == IF s1 = 30 THEN "App is stateless (safer)"
              ELSE "App is stateful (needs careful scaling)"
        f2 == IF s2 = 30 THEN "Clean read-heavy data access"
              ELSE "Write-heavy workload (watch for bottlenecks)"
        f3 == IF s3 = 20
              THEN "Has " \o depText \o " external dependencies (minimal risk)"
              ELSE IF s3 = 10
              THEN "Has " \o depText \o " external API dependencies"
              ELSE "Has " \o depText \o " external dependencies (monitor reliability)"
        f4 == IF s4 = 20 THEN "Low concurrency risk"
              ELSE IF s4 = 10 THEN "Medium concurrency risk"
              ELSE "High concurrency risk (plan for scaling)"
        f5 == IF ~Flag(behaviorProfile, "has_background_jobs")
              THEN "No background jobs detected"
              ELSE "Has background jobs (ensure separation from main app)"
    IN [score |-> 0 + s1 + s2 + s3 + s4,
        factors |-> <<f1, f2>> \o DatabaseFactors(stackProfile) \o <<f3, f4, f5>>]

\* severityWeight
SeverityWeight(severity) ==
    CASE severity = "high" -> 3 [] severity = "medium" -> 2 [] severity = "low" -> 1

RiskScenario(id, title, plain_explanation, trigger_condition, user_symptom, severity, order) ==
    [id |-> id, title |-> title, plain_explanation |-> plain_explanation,
     trigger_condition |-> trigger_condition, user_symptom |-> user_symptom,
     severity |-> severity, order |-> order]

\* the comparator of detectedRisks.sort is negative: a goes before b
RiskBefore(a, b) ==
    LET weightDiff == SeverityWeight(b.severity) - SeverityWeight(a.severity)
    IN IF weightDiff # 0 THEN weightDiff < 0 ELSE a.order - b.order < 0

\* detectedRisks left in the order the rules pushed them
KeepPushOrder(risks) == risks

\* detectedRisks.sort(...): Array.prototype.sort is stable
RECURSIVE SortRisks(_)
SortRisks(risks) ==
    IF risks = <<>> THEN <<>>
    ELSE LET last == risks[Len(risks)]
             front == SortRisks(SubSeq(risks, 1, Len(risks) - 1))
             ahead == {i \in 1..Len(front) : ~RiskBefore(last, front[i])}
             n == Cardinality(ahead)
         IN SubSeq(front, 1, n) \o <<last>> \o SubSeq(front, n + 1, Len(front))

\* every sorted risk is returned
SliceAll(risks) == risks

\* detectedRisks.slice(0, 3)
SliceTopThree(risks) ==
    SubSeq(risks, 1, IF Len(risks) < 3 THEN Len(risks) ELSE 3)

\* rule 1 of detectRisks: database contention
DatabaseContentionRule(stackProfile, behaviorProfile) ==
    LET database == StackDatabase(stackProfile)
        db == Value(database)
    IN /\ Flag(behaviorProfile, "write_heavy")
       /\ IsDefined(database)
       /\ \/ LowerIncludes(db, "sqlite")
          \/ (/\ ~LowerIncludes(db, "postgresql")
              /\ ~LowerIncludes(db, "postgres")
              /\ ~LowerIncludes(db, "managed"))

\* rule 2 of detectRisks: cost explosion on serverless platforms
CostExplosionRule(stackProfile) ==
    LET platform == stackProfile.deployment_platform
    IN /\ Has(stackProfile, "deployment_platform")
       /\ platform # ""
       /\ \/ LowerIncludes(platform, "vercel")
          \/ LowerIncludes(platform, "netlify")
          \/ LowerIncludes(platform, "lambda")
          \/ LowerIncludes(platform, "serverless")

\* rule 3 of detectRisks; a comparison with undefined is false
ExternalDepsRule(behaviorProfile) ==
    /\ Has(behaviorProfile, "external_dependency_count")
    /\ behaviorProfile.external_dependency_count > 2

\* rule 4 of detectRisks
BackgroundBlockingRule(behaviorProfile) ==
    /\ Flag(behaviorProfile, "has_background_jobs")
    /\ (Flag(behaviorProfile, "write_heavy") \/ Flag(behaviorProfile, "is_stateful"))

\* rule 5 firing on a high risk estimate alone
ConcurrencyRiskRuleHighOnly(behaviorProfile) ==
    /\ Has(behaviorProfile, "estimated_concurrency_risk")
    /\ behaviorProfile.estimated_concurrency_risk = "high"

\* rule 5 of detectRisks
ConcurrencyRiskRule(behaviorProfile) ==
    \/ Flag(behaviorProfile, "is_stateful")
    \/ (/\ Has(behaviorProfile, "estimated_concurrency_risk")
        /\ behaviorProfile.estimated_concurrency_risk = "high")

\* the candidates in the order the rules push them
DetectedRisks(stackProfile, behaviorProfile) ==
    LET riskHigh == /\ Has(behaviorProfile, "estimated_concurrency_risk")
                    /\ behaviorProfile.estimated_concurrency_risk = "high"
        r1 == IF DatabaseContentionRule(stackProfile, behaviorProfile)
              THEN <<RiskScenario("db-contention", "Database contention",
                        "Your database isn't built for lots of writes at once. If 10 people hit it simultaneously, they'll all wait in line.",
                        "write_heavy AND database is sqlite OR not managed",
                        "Slower responses under heavy use",
                        IF riskHigh THEN "high" ELSE "medium", 1)>>
              ELSE <<>>
        r2 == IF CostExplosionRule(stackProfile)
              THEN <<RiskScenario("cost-explosion", "Surprise cost increase",
                        "On serverless platforms, a sudden spike in traffic can lead to unexpected bills. Watch your usage metrics closely.",
                        "serverless platform detected",
                        "Unexpected hosting bills", "medium", 2)>>
              ELSE <<>>
        r3 == IF ExternalDepsRule(behaviorProfile)
              THEN <<RiskScenario("external-deps", "External dependency risk",
                        "You're relying on "
                            \o NumberText(behaviorProfile, "external_dependency_count")
                            \o " external APIs. If any go down or slow down, your app feels it.",
                        "external_dependency_count > 2",
                        "Intermittent failures or slow responses",
                        IF behaviorProfile.external_dependency_count > 5
                        THEN "high" ELSE "medium", 3)>>
              ELSE <<>>
        r4 == IF BackgroundBlockingRule(behaviorProfile)
              THEN <<RiskScenario("background-blocking",
                        "Long-running tasks block users",
                        "Background jobs are running on the same server as user requests. Heavy processing can slow down the whole app.",
                        "has_background_jobs AND (stateful OR write_heavy)",
                        "App feels sluggish during processing", "medium", 4)>>
              ELSE <<>>
        r5 == IF ConcurrencyRiskRule(behaviorProfile)
              THEN <<RiskScenario("concurrency-risk",
                        "Growth may expose concurrency issues",
                        "Your app maintains state or has high concurrency risk. When traffic increases, race conditions or data conflicts could appear.",
                        "is_stateful OR estimated_concurrency_risk high",
                        "Data inconsistencies or crashes under load",
                        IF Flag(behaviorProfile, "is_stateful")
                        THEN "high" ELSE "medium", 5)>>
              ELSE <<>>
    IN r1 \o r2 \o r3 \o r4 \o r5

\* detectRisks answering on the first day only
detectRisksOnTheFirstDay(stackProfile, behaviorProfile) ==
    IF now = 0
    THEN SliceTopThree(SortRisks(DetectedRisks(stackProfile, behaviorProfile)))
    ELSE <<>>

detectRisks(stackProfile, behaviorProfile) ==
    SliceTopThree(SortRisks(DetectedRisks(stackProfile, behaviorProfile)))

\* runtime.toLowerCase() of the runtimes a stack profile may name
LowerCaseRuntimes ==
    {<<"Node.js", "node.js">>, <<"Python", "python">>, <<"node", "node">>}

ToLowerCase(runtime) ==
    IF \E pair \in LowerCaseRuntimes : pair[1] = runtime
    THEN (CHOOSE pair \in LowerCaseRuntimes : pair[1] = runtime)[2]
    ELSE runtime

PlatformScore(id, name, score, whyBullets, whenItChanges, confidenceNote) ==
    [id |-> id, name |-> name, score |-> score, whyBullets |-> whyBullets,
     whenItChanges |-> whenItChanges, confidenceNote |-> confidenceNote]

\* platforms.sort((a, b) => b.score - a.score), a stable sort
RECURSIVE SortPlatforms(_)
SortPlatforms(platforms) ==
    IF platforms = <<>> THEN <<>>
    ELSE LET last == platforms[Len(platforms)]
             front == SortPlatforms(SubSeq(platforms, 1, Len(platforms) - 1))
             ahead == {i \in 1..Len(front) : front[i].score - last.score >= 0}
             n == Cardinality(ahead)
         IN SubSeq(front, 1, n) \o <<last>> \o SubSeq(front, n + 1, Len(front))

\* whyBullets.slice(0, 2)
FirstTwo(bullets) ==
    SubSeq(bullets, 1, IF Len(bullets) < 2 THEN Len(bullets) ELSE 2)

\* the four scored platforms in the order they are pushed
ScoredPlatforms(stackProfile, behaviorProfile) ==
    LET runtime == IF Has(stackProfile, "runtime")
                   THEN ToLowerCase(stackProfile.runtime) ELSE ""
        framework == IF Has(stackProfile, "framework")
                     THEN stackProfile.framework ELSE ""
        hasDatabase ==
            \/ (Has(stackProfile, "database") /\ stackProfile.database # "")
            \/ (Has(stackProfile, "databases") /\ Len(stackProfile.databases) > 0)
        stateful == Flag(behaviorProfile, "is_stateful")
        write == Flag(behaviorProfile, "write_heavy")
        jobs == Flag(behaviorProfile, "has_background_jobs")
        risk == IF Has(behaviorProfile, "estimated_concurrency_risk")
                THEN behaviorProfile.estimated_concurrency_risk ELSE "undefined"
        replitSimple == ~stateful /\ risk = "low"
        replitRuntime == runtime = "node" \/ runtime = "python"
        vercelFramework == LowerIncludes(framework, "next")
                           \/ LowerIncludes(framework, "react")
        vercelServerless == ~hasDatabase /\ ~write
        replit ==
            PlatformScore("replit", "Replit",
                50 + (IF replitSimple THEN 30 ELSE 0)
                   + (IF replitRuntime THEN 20 ELSE 0),
                FirstTwo((IF replitSimple
                          THEN <<"Simple setup for low-to-moderate traffic">>
                          ELSE <<>>)
                         \o (IF replitRuntime
                             THEN <<"Great support for Node.js and Python">>
                             ELSE <<>>)),
                "If usage grows 5-10x, this setup may need an upgrade.",
                "You're not missing out by staying here.")
        vercel ==
            PlatformScore("vercel", "Vercel",
                50 + (IF vercelFramework THEN 40 ELSE 0)
                   + (IF vercelServerless THEN 20 ELSE 0)
                   - (IF stateful \/ hasDatabase THEN 20 ELSE 0),
                FirstTwo((IF vercelFramework
                          THEN <<"Built for Next.js and React apps">> ELSE <<>>)
                         \o (IF vercelServerless
                             THEN <<"Perfect for serverless API routes">>
                             ELSE <<>>)),
                "If you add databases or stateful features, consider Railway.",
                "Best for static sites and serverless functions.")
        railway ==
            PlatformScore("railway", "Railway",
                50 + (IF hasDatabase THEN 30 ELSE 0)
                   + (IF jobs THEN 25 ELSE 0)
                   + (IF write THEN 15 ELSE 0),
                FirstTwo((IF hasDatabase
                          THEN <<"Excellent database support">> ELSE <<>>)
                         \o (IF jobs
                             THEN <<"Handles background jobs well">> ELSE <<>>)),
                "If you need multi-region or advanced scaling, look at Fly.io.",
                "Great balance of simplicity and power.")
        fly ==
            PlatformScore("fly", "Fly.io",
                50 + (IF stateful THEN 35 ELSE 0)
                   + (IF risk = "high" THEN 25 ELSE 0)
                   + (IF hasDatabase /\ write THEN 20 ELSE 0),
                FirstTwo((IF stateful
                          THEN <<"Built for stateful applications">> ELSE <<>>)
                         \o (IF risk = "high"
                             THEN <<"Handles high concurrency well">> ELSE <<>>)),
                "This scales with you through production.",
                "Best for apps that need global distribution.")
    IN <<replit, vercel, railway, fly>>

\* the "still good" test with the threshold itself excluded
StillGoodAbove(score) == score > 70

\* currentPlatformData.score >= 70
StillGood(score) == score >= 70

\* currentPlatform is optional; the badges are kept without their emoji and
\* the dash and the times sign of one text are written in ASCII.
recommendPlatform(stackProfile, behaviorProfile, currentPlatform) ==
    LET platforms == SortPlatforms(ScoredPlatforms(stackProfile, behaviorProfile))
        given == IsDefined(currentPlatform) /\ Value(currentPlatform) # ""
        matching == {i \in 1..Len(platforms) :
                        given /\ LowerIncludes(Value(currentPlatform), platforms[i].id)}
        currentPlatformData ==
            platforms[CHOOSE i \in matching : \A j \in matching : i <= j]
        best == platforms[1]
    IN IF matching # {} /\ StillGood(currentPlatformData.score)
       THEN [platform_id |-> currentPlatformData.id,
             platform_name |-> currentPlatformData.name,
             recommended_badge |-> "Stay where you are",
             why_bullets |->
                IF Len(currentPlatformData.whyBullets) > 0
                THEN currentPlatformData.whyBullets
                ELSE <<"Handles your current usage well", "No urgent need to change">>,
             when_it_changes |-> currentPlatformData.whenItChanges,
             confidence_note |-> currentPlatformData.confidenceNote]
       ELSE [platform_id |-> best.id,
             platform_name |-> best.name,
             recommended_badge |->
                IF given THEN "Consider upgrading" ELSE "Recommended right now",
             why_bullets |->
                IF Len(best.whyBullets) > 0
                THEN best.whyBullets
                ELSE <<"Best fit for your app's needs", "Balances simplicity and capability">>,
             when_it_changes |-> best.whenItChanges,
             confidence_note |-> best.confidenceNote]

Stages == {"mvp", "watch", "growth", "production"}

\* the database upgrade required at every stage
DatabaseUpgradeRequiredAlways(stage) == TRUE

\* upgrade_required: stage === "growth"
DatabaseUpgradeRequired(stage) == stage = "growth"

NextBestStep(mode, headline, explanation, cta_text, upgrade_required) ==
    [mode |-> mode, headline |-> headline, explanation |-> explanation,
     cta_text |-> cta_text, upgrade_required |-> upgrade_required]

recommendNextStep(stackProfile, behaviorProfile, stage) ==
    LET database == StackDatabase(stackProfile)
        db == Value(database)
        sqlite == IsDefined(database) /\ LowerIncludes(db, "sqlite")
        stateful == Flag(behaviorProfile, "is_stateful")
        write == Flag(behaviorProfile, "write_heavy")
        jobs == Flag(behaviorProfile, "has_background_jobs")
        hasCount == Has(behaviorProfile, "external_dependency_count")
        depCount == behaviorProfile.external_dependency_count
        hasHighRisk ==
            \/ (/\ Has(behaviorProfile, "estimated_concurrency_risk")
                /\ behaviorProfile.estimated_concurrency_risk = "high")
            \/ stateful
            \/ (hasCount /\ depCount > 5)
        nothing ==
            NextBestStep("do_nothing", "Nothing right now.",
                "You're in a good place. Focus on your product.",
                "We can watch this for you", FALSE)
    IN IF stage = "mvp"
       THEN IF write /\ sqlite
            THEN NextBestStep("watch_one_thing", "Keep an eye on database usage",
                    "Your SQLite database works fine for now. When you hit ~50 concurrent users, you'll want to upgrade to PostgreSQL.",
                    "Enable Watch Mode", FALSE)
            ELSE IF jobs
            THEN NextBestStep("watch_one_thing", "Monitor background job performance",
                    "Background jobs are running on the same server. This is fine for MVP, but watch for slowdowns.",
                    "Get alerts when things change", FALSE)
            ELSE nothing
       ELSE IF stage = "watch" \/ stage = "growth"
       THEN IF sqlite /\ write
            THEN NextBestStep("small_upgrade",
                    "Before charging users, switch to managed DB",
                    "SQLite works for testing, but you'll want PostgreSQL or a managed database before going live with paying customers.",
                    "Show me how to upgrade", DatabaseUpgradeRequired(stage))
            ELSE IF jobs /\ stateful
            THEN NextBestStep("small_upgrade",
                    "Separate background jobs from main app",
                    "Move long-running tasks to a separate service or queue to keep your main app responsive.",
                    "See upgrade options", FALSE)
            ELSE IF hasCount /\ depCount > 3
            THEN NextBestStep("watch_one_thing", "Add monitoring for external APIs",
                    "You're relying on several external services. Set up alerts so you know when they slow down or fail.",
                    "Enable API monitoring", FALSE)
            ELSE NextBestStep("watch_one_thing", "Watch for traffic patterns",
                    "Your setup is solid. Keep an eye on usage patterns to catch issues before they affect users.",
                    "Enable Watch Mode", FALSE)
       ELSE IF stage = "production"
       THEN IF hasHighRisk
            THEN NextBestStep("small_upgrade", "Reduce concurrency risks",
                    "Your app has high concurrency risk. Consider adding caching, connection pooling, or load balancing.",
                    "Review upgrade plan", TRUE)
            ELSE IF /\ IsDefined(database)
                    /\ ~LowerIncludes(db, "postgresql")
                    /\ ~LowerIncludes(db, "managed")
            THEN NextBestStep("small_upgrade", "Upgrade to managed database",
                    "For production stability, use a managed database service with automatic backups and scaling.",
                    "See migration guide", TRUE)
            ELSE IF jobs
            THEN NextBestStep("small_upgrade", "Use dedicated job queue",
                    "Production apps need reliable background processing. Consider Redis-backed queues or dedicated workers.",
                    "View job queue options", FALSE)
            ELSE NextBestStep("watch_one_thing", "Monitor for regressions",
                    "Your production setup is solid. Watch for performance regressions as you add features.",
                    "Enable Production Plus", FALSE)
       ELSE nothing

\* the status with the upper boundary excluded
VerdictStatusAbove(score) ==
    IF score > 80 THEN "safe"
    ELSE IF score >= 50 THEN "watch"
    ELSE "fix"

\* generateLaunchVerdict, step 6: status from the confidence score.
VerdictStatus(score) ==
    IF score >= 80 THEN "safe"
    ELSE IF score >= 50 THEN "watch"
    ELSE "fix"

\* the stage with the thresholds of the status
VerdictStageUnified(score) ==
    IF score >= 80 THEN "production"
    ELSE IF score >= 50 THEN "watch"
    ELSE "mvp"

\* generateLaunchVerdict, step 4: stage from the confidence score.
VerdictStage(score) ==
    IF score >= 80 THEN "production"
    ELSE IF score >= 65 THEN "growth"
    ELSE IF score >= 50 THEN "watch"
    ELSE "mvp"

\* user_symptom.toLowerCase() of the five symptoms
LowerCaseSymptoms ==
    {<<"Slower responses under heavy use", "slower responses under heavy use">>,
     <<"Unexpected hosting bills", "unexpected hosting bills">>,
     <<"Intermittent failures or slow responses", "intermittent failures or slow responses">>,
     <<"App feels sluggish during processing", "app feels sluggish during processing">>,
     <<"Data inconsistencies or crashes under load", "data inconsistencies or crashes under load">>}

SymptomToLowerCase(symptom) ==
    (CHOOSE pair \in LowerCaseSymptoms : pair[1] = symptom)[2]

\* generateLaunchVerdict, step 7: the one-line summary.
OneLineSummary(status, risks) ==
    IF status = "safe"
    THEN IF Len(risks) = 0
         THEN "Your app is safe to launch. The current setup handles your needs well."
         ELSE "Your app is safe to share. " \o risks[1].user_symptom
                \o " may appear as you grow."
    ELSE IF status = "watch"
    THEN IF Len(risks) > 0
         THEN "Your app works now, but watch for: "
                \o SymptomToLowerCase(risks[1].user_symptom)
         ELSE "Your app is functional. Monitor usage patterns as you grow."
    ELSE IF Len(risks) > 0
         THEN "Fix before launch: " \o risks[1].plain_explanation
         ELSE "Your app needs improvements before handling production traffic."

\* analysis: a row of app_analyses (or the handler's copy of one with fresh
\* profiles).
generateLaunchVerdict(analysis) ==
    LET stack == analysis.stack_detection
        behavior == analysis.behavior_profile
        confidence == calculateLaunchConfidence(stack, behavior)
        risks == detectRisks(stack, behavior)
        currentPlatform == IF Has(stack, "deployment_platform")
                           THEN Some(stack.deployment_platform) ELSE Undefined
        platformRecommendation == recommendPlatform(stack, behavior, currentPlatform)
        stage == VerdictStage(confidence.score)
        nextBestStep == recommendNextStep(stack, behavior, stage)
        status == VerdictStatus(confidence.score)
    IN [analysis_id |-> analysis.id,
        status |-> status,
        confidence_score |-> confidence.score,
        one_line_summary |-> OneLineSummary(status, risks),
        risks |-> risks,
        platform_recommendation |-> platformRecommendation,
        next_best_step |-> nextBestStep]

(***************************************************************************)
(* services/alertOrchestrator.ts                                           *)
(***************************************************************************)
createAlert(clock, userId, analysisId, category, severity, title, body, what_changed, next_step) ==
    [id |-> 0,  \* set by the database
     user_id |-> userId, analysis_id |-> analysisId, category |-> category,
     severity |-> severity, title |-> title, body |-> body,
     what_changed |-> what_changed, next_step |-> next_step,
     created_at |-> clock, read_at |-> Undefined]

\* The history query with a window one day short.
RecentAlertsSixDays(table, clock, userId, analysisId) ==
    {i \in 1..Len(table) :
        /\ table[i].user_id = userId
        /\ table[i].analysis_id = analysisId
        /\ table[i].created_at > clock - (CooldownDays - 1)}

\* The history query without its analysis filter.
RecentAlertsAnyAnalysis(table, clock, userId, analysisId) ==
    {i \in 1..Len(table) :
        /\ table[i].user_id = userId
        /\ table[i].created_at > clock - CooldownDays}

\* SELECT * FROM alerts WHERE user_id = $1 AND analysis_id = $2
\*   AND created_at > NOW() - INTERVAL '7 days'
RecentAlerts(table, clock, userId, analysisId) ==
    {i \in 1..Len(table) :
        /\ table[i].user_id = userId
        /\ table[i].analysis_id = analysisId
        /\ table[i].created_at > clock - CooldownDays}

RecentCategories(table, clock, userId, analysisId) ==
    {table[i].category : i \in RecentAlerts(table, clock, userId, analysisId)}

UsageGrowthRule(previousProfile, newProfile) ==
    /\ ~(Has(previousProfile, "estimated_concurrency_risk")
         /\ previousProfile.estimated_concurrency_risk = "high")
    /\ Has(newProfile, "estimated_concurrency_risk")
    /\ newProfile.estimated_concurrency_risk = "high"

\* The cost rule firing on any increase.
CostRiskRuleAnyIncrease(previousProfile, newProfile) ==
    /\ Has(previousProfile, "external_dependency_count")
    /\ Has(newProfile, "external_dependency_count")
    /\ newProfile.external_dependency_count
         > previousProfile.external_dependency_count

\* A comparison with NaN (undefined + 2) or with undefined is false.
CostRiskRule(previousProfile, newProfile) ==
    /\ Has(previousProfile, "external_dependency_count")
    /\ Has(newProfile, "external_dependency_count")
    /\ newProfile.external_dependency_count
         > previousProfile.external_dependency_count + 2

ArchitectureDriftRule(previousProfile, newProfile) ==
    ~Flag(previousProfile, "is_stateful") /\ Flag(newProfile, "is_stateful")

PlatformSuitabilityRule(previousProfile, newProfile) ==
    Flag(newProfile, "has_background_jobs") /\ Flag(newProfile, "write_heavy")

StabilityRegressionRule(previousProfile, newProfile) ==
    /\ ~Flag(previousProfile, "has_background_jobs")
    /\ Flag(newProfile, "has_background_jobs")

\* The five trigger rules of evaluateAlerts, in the order of the code, each
\* behind its cooldown test.  table, clock: the alerts table and the clock
\* the history query reads; prev: the previous profile.
TriggeredAlerts(table, clock, analysisId, userId, newProfile, prev) ==
    LET recentCategories == RecentCategories(table, clock, userId, analysisId)
        usage ==
            IF "usage_growth" \notin recentCategories
               /\ UsageGrowthRule(prev, newProfile)
            THEN <<createAlert(clock, userId, analysisId,
                "usage_growth", "heads_up",
                "Your app is handling more traffic",
                "We noticed your app's usage patterns have changed. This is a good sign - it means people are using it more.",
                "Concurrency risk increased from "
                    \o StringText(prev, "estimated_concurrency_risk")
                    \o " to high",
                "Keep an eye on response times. If things slow down, we'll let you know what to do.")>>
            ELSE <<>>
        cost ==
            IF "cost_risk" \notin recentCategories
               /\ CostRiskRule(prev, newProfile)
            THEN <<createAlert(clock, userId, analysisId,
                "cost_risk", "informational",
                "New external services detected",
                "Your app now connects to more external services. This is fine, but each service may have its own costs.",
                "External dependencies increased from "
                    \o NumberText(prev, "external_dependency_count") \o " to "
                    \o NumberText(newProfile, "external_dependency_count"),
                "Review the pricing for any new services you're using.")>>
            ELSE <<>>
        drift ==
            IF "architecture_drift" \notin recentCategories
               /\ ArchitectureDriftRule(prev, newProfile)
            THEN <<createAlert(clock, userId, analysisId,
                "architecture_drift", "heads_up",
                "Your app now stores state",
                "We detected that your app has started storing data in memory or files. This works fine now, but may cause issues if you need to run multiple copies.",
                "App changed from stateless to stateful",
                "Consider using a database for important data instead of in-memory storage.")>>
            ELSE <<>>
        platform ==
            IF "platform_suitability" \notin recentCategories
               /\ PlatformSuitabilityRule(prev, newProfile)
            THEN <<createAlert(clock, userId, analysisId,
                "platform_suitability", "action_soon",
                "Your setup might need an upgrade soon",
                "With background jobs and frequent database writes, you're doing things that work better with dedicated resources.",
                "Detected background jobs combined with write-heavy patterns",
                "When you're ready, we can show you a smoother setup.")>>
            ELSE <<>>
        stability ==
            IF "stability_regression" \notin recentCategories
               /\ StabilityRegressionRule(prev, newProfile)
            THEN <<createAlert(clock, userId, analysisId,
                "stability_regression", "informational",
                "Background tasks detected",
                "Your app now runs tasks in the background. This is common, but make sure long tasks don't slow down user requests.",
                "Background jobs were added",
                "Consider moving heavy tasks to a separate queue if response times suffer.")>>
            ELSE <<>>
    IN usage \o cost \o drift \o platform \o stability

\* evaluateAlerts that takes an absent previous profile for an empty one.
evaluateAlertsUnguarded(table, clock, analysisId, userId, newProfile, previousProfile) ==
    TriggeredAlerts(table, clock, analysisId, userId, newProfile,
                    IF IsDefined(previousProfile) THEN Value(previousProfile)
                    ELSE EmptyBehaviorProfile)

\* previousProfile is optional: `if (!previousProfile) return alerts;`
evaluateAlerts(table, clock, analysisId, userId, newProfile, previousProfile) ==
    IF ~IsDefined(previousProfile) THEN <<>>
    ELSE TriggeredAlerts(table, clock, analysisId, userId, newProfile,
                         Value(previousProfile))

\* INSERT INTO alerts (...) VALUES (...) RETURNING *: the row the database
\* stores for one alert; id, created_at and read_at are the column defaults.
InsertedAlert(table, clock, alert) ==
    [alert EXCEPT !.id = Len(table) + 1, !.created_at = clock,
                  !.read_at = Undefined]

\* saveAlerts stopped by a failing INSERT after `done` alerts (done = Len(list)
\* when no INSERT fails): the table afterwards.
RECURSIVE saveAlerts(_, _, _, _)
saveAlerts(table, clock, list, done) ==
    IF done = 0 THEN table
    ELSE LET before == saveAlerts(table, clock, list, done - 1)
         IN Append(before, InsertedAlert(before, clock, list[done]))

(***************************************************************************)
(* The remote repository and the database as the handlers meet them.       *)
(***************************************************************************)
\* routes/analyze.ts isValidGitHubUrl and the httpsPattern of cloneGitHubRepo,
\* over the URLs the model draws.
Urls == {"https://github.com/acme/app", "https://gitlab.com/acme/app"}

isValidGitHubUrl(url) == url = "https://github.com/acme/app"

MatchesClonePattern(url) == url = "https://github.com/acme/app"

\* The statusText of the tree request that GitHub answers with.
RemoteAnswers ==
    {"OK", "Not Found", "rate limit exceeded", "Too Many Requests", "Forbidden"}

CloneFailedPrefix ==
    "Failed to clone GitHub repository: Failed to fetch repository tree: "

\* cloneGitHubRepo: the content, or the message of the Error it throws.
\* remote: the answer of GitHub and the content of the repository.
cloneGitHubRepo(githubUrl, remote) ==
    IF ~MatchesClonePattern(githubUrl)
    THEN [ok |-> FALSE, content |-> remote.content,
          message |-> "Invalid GitHub URL format. Expected https://github.com/owner/repo or git@github.com:owner/repo.git"]
    ELSE IF remote.answer # "OK"
    THEN [ok |-> FALSE, content |-> remote.content,
          message |-> CloneFailedPrefix \o remote.answer]
    ELSE [ok |-> TRUE, content |-> remote.content, message |-> ""]

\* String.prototype.includes, case-sensitive, over the status texts.
StatusTextIncludes == {<<"rate limit exceeded", "rate limit">>}

\* message.includes(t) over the messages the handlers can catch.
MessageIncludes(message, t) ==
    \E answer \in RemoteAnswers :
        /\ message = CloneFailedPrefix \o answer
        /\ <<answer, t>> \in StatusTextIncludes

DatabaseError == "database query failed"

\* Where a database query of a handler fails, if any does: the INSERT of the
\* analysis, the SELECT of the row, the alert-history query, the INSERT of an
\* alert after `done` alerts were inserted, or the final UPDATE.
Fault(at, done) == [at |-> at, done |-> done]
NoFault == Fault("none", 0)
RecheckFaults ==
    {Fault(at, 0) : at \in {"none", "select", "alert_query", "update"}}
    \cup {Fault("alert_insert", done) : done \in 0..(Cardinality(Categories) - 1)}

Response(handler, code, error) ==
    [handler |-> handler, code |-> code, error |-> error,
     analysisId |-> 0, verdict |-> Undefined, newAlerts |-> <<>>,
     previousConfidenceScore |-> 0]

NoResponse == Response("none", 0, "")

\* The catch blocks of handleAnalyze and handleRecheckAnalysis.
CaughtCode(message) ==
    IF MessageIncludes(message, "rate limit") THEN 429
    ELSE IF MessageIncludes(message, "not found") THEN 404
    ELSE 500

\* The error text sent with a caught failure of handleRecheckAnalysis.
RecheckCaughtError(message) ==
    IF MessageIncludes(message, "rate limit")
    THEN "GitHub API rate limit exceeded. Please try again later."
    ELSE IF MessageIncludes(message, "not found")
    THEN "Repository no longer accessible."
    ELSE "Recheck failed during processing"

\* The error text sent with a caught failure of handleAnalyze.
AnalyzeCaughtError(message) ==
    IF MessageIncludes(message, "rate limit")
    THEN "GitHub API rate limit exceeded. Please try again later."
    ELSE IF MessageIncludes(message, "not found")
    THEN "Repository not found or not accessible."
    ELSE "Analysis failed during processing"

(***************************************************************************)
(* The repository contents a clone may return in the handlers' runs.       *)
(***************************************************************************)
\* stateless, read-heavy, two dependencies
QuietContent ==
    AppContent({"package.json"},
               CodeSignals(FALSE, 0, 1, FALSE, FALSE, FALSE),
               PackageJson({"express", "pg"}, {}, 0), Undefined)

\* stateless, write-heavy, background jobs, three dependencies
JobsContent ==
    AppContent({"package.json", "vercel.json"},
               CodeSignals(FALSE, 2, 1, TRUE, FALSE, TRUE),
               PackageJson({"express", "pg", "bull"}, {}, 0), Undefined)

RouteContents == {QuietContent, JobsContent}

\* detectStack and analyzePatterns are pure: their results for the contents
\* above, computed once.
Analyzed ==
    [c \in RouteContents |->
        [stackProfile |-> detectStack(c), behaviorProfile |-> analyzePatterns(c)]]

Remotes ==
    {[answer |-> "OK", content |-> c] : c \in RouteContents}
    \cup {[answer |-> a, content |-> QuietContent] : a \in RemoteAnswers \ {"OK"}}

(***************************************************************************)
(* routes/analyze.ts                                                       *)
(***************************************************************************)
AnalysisRow(id, userId, github_url) ==
    [id |-> id, user_id |-> userId, github_url |-> github_url,
     status |-> "pending", stack_detection |-> EmptyStackProfile,
     behavior_profile |-> EmptyBehaviorProfile, launch_confidence_score |-> 0]

\* POST /api/analyze up to the INSERT of the pending row.  userId and
\* github_url are optional.  The handler awaits the clone after the INSERT,
\* so other requests meet the pending row: the rest of the handler is
\* handleAnalyzeFinish.
handleAnalyze(userId, github_url, uploaded_file, fault) ==
    /\ Len(app_analyses) < MaxAnalyses
    \* a request refused before the INSERT meets no database fault
    /\ fault = NoFault \/ (IsDefined(userId) /\ IsDefined(github_url)
                          /\ ~uploaded_file /\ isValidGitHubUrl(Value(github_url)))
    /\ IF ~IsDefined(userId)
       THEN /\ response' = Response("handleAnalyze", 401, "Unauthorized")
            /\ UNCHANGED app_analyses
       ELSE IF ~IsDefined(github_url) /\ ~uploaded_file
       THEN /\ response' = Response("handleAnalyze", 400,
                   "Missing required field: github_url or uploaded_file")
            /\ UNCHANGED app_analyses
       ELSE IF uploaded_file
       THEN /\ response' = Response("handleAnalyze", 400,
                   "File upload not yet supported. Please provide a github_url.")
            /\ UNCHANGED app_analyses
       ELSE IF ~isValidGitHubUrl(Value(github_url))
       THEN /\ response' = Response("handleAnalyze", 400,
                   "Invalid GitHub URL. Must be a valid github.com repository URL.")
            /\ UNCHANGED app_analyses
       ELSE IF fault.at = "insert"
       THEN /\ response' = Response("handleAnalyze", 500, "Analysis failed")
            /\ UNCHANGED app_analyses
       ELSE /\ app_analyses' =
                   Append(app_analyses,
                          AnalysisRow(Len(app_analyses) + 1, Value(userId),
                                      Value(github_url)))
            /\ response' = NoResponse
    /\ UNCHANGED <<alerts, now, call, ret>>

\* POST /api/analyze from the clone to the response, for the pending row
\* analysisId.
handleAnalyzeFinish(analysisId, remote, fault) ==
    /\ analysisId \in 1..Len(app_analyses)
    /\ app_analyses[analysisId].status = "pending"
    /\ (remote.answer # "OK" => fault = NoFault)
    /\ LET analysis == app_analyses[analysisId]
           cloned == cloneGitHubRepo(analysis.github_url, remote)
           stackProfile == Analyzed[cloned.content].stackProfile
           behaviorProfile == Analyzed[cloned.content].behaviorProfile
           partialAnalysis == [analysis EXCEPT
                                  !.stack_detection = stackProfile,
                                  !.behavior_profile = behaviorProfile]
           verdict == generateLaunchVerdict(partialAnalysis)
       IN IF cloned.ok /\ fault.at # "update"
          THEN /\ app_analyses' =
                     [app_analyses EXCEPT ![analysisId] =
                         [partialAnalysis EXCEPT
                             !.status = "completed",
                             !.launch_confidence_score = verdict.confidence_score]]
               /\ response' =
                     [Response("handleAnalyze", 201, "") EXCEPT
                         !.analysisId = analysisId, !.verdict = Some(verdict)]
          ELSE LET message == IF cloned.ok THEN DatabaseError ELSE cloned.message
               IN /\ app_analyses' =
                        [app_analyses EXCEPT ![analysisId].status = "failed"]
                  /\ response' =
                        [Response("handleAnalyze", CaughtCode(message),
                                  AnalyzeCaughtError(message))
                            EXCEPT !.analysisId = analysisId]
    /\ UNCHANGED <<alerts, now, call, ret>>

\* POST /api/analyze/:analysisId/recheck, run without another request in
\* between.  userId is optional; `delay` days pass between the alert-history
\* query and the INSERTs.  The route always carries an analysisId and every
\* stored row a github_url, so the two 400 answers do not occur.
handleRecheckAnalysis(userId, analysisId, remote, fault, delay) ==
    \* a request answered before the clone reads neither the remote nor the clock
    /\ \/ /\ IsDefined(userId)
          /\ fault.at # "select"
          /\ analysisId \in 1..Len(app_analyses)
          /\ app_analyses[analysisId].user_id = Value(userId)
       \/ /\ remote = [answer |-> "OK", content |-> QuietContent]
          /\ fault.at \in {"none", "select"}
          /\ delay = 0
    \* nor does a request whose clone or history query fails reach the inserts
    /\ (remote.answer # "OK" => fault = NoFault)
    /\ (remote.answer # "OK" \/ fault.at = "alert_query" => delay = 0)
    /\ IF ~IsDefined(userId)
       THEN /\ response' = Response("handleRecheckAnalysis", 401, "Unauthorized")
            /\ UNCHANGED <<app_analyses, alerts, now>>
       ELSE IF fault.at = "select"
       THEN /\ response' = Response("handleRecheckAnalysis", 500, "Recheck failed")
            /\ UNCHANGED <<app_analyses, alerts, now>>
       ELSE IF analysisId \notin 1..Len(app_analyses)
       THEN /\ response' = Response("handleRecheckAnalysis", 404, "Analysis not found")
            /\ UNCHANGED <<app_analyses, alerts, now>>
       ELSE IF app_analyses[analysisId].user_id # Value(userId)
       THEN /\ response' = Response("handleRecheckAnalysis", 403,
                   "Forbidden: You do not own this analysis")
            /\ UNCHANGED <<app_analyses, alerts, now>>
       ELSE
         LET existingAnalysis == app_analyses[analysisId]
             oldBehaviorProfile == existingAnalysis.behavior_profile
             cloned == cloneGitHubRepo(existingAnalysis.github_url, remote)
             newStackProfile == Analyzed[cloned.content].stackProfile
             newBehaviorProfile == Analyzed[cloned.content].behaviorProfile
             list == evaluateAlerts(alerts, now, analysisId, Value(userId),
                                    newBehaviorProfile, Some(oldBehaviorProfile))
             saved == IF fault.at = "alert_insert" THEN fault.done ELSE Len(list)
             table == saveAlerts(alerts, now + delay, list, saved)
             savedAlerts == SubSeq(table, Len(alerts) + 1, Len(table))
             updatedAnalysis == [existingAnalysis EXCEPT
                                    !.stack_detection = newStackProfile,
                                    !.behavior_profile = newBehaviorProfile]
             verdict == generateLaunchVerdict(updatedAnalysis)
         IN IF ~cloned.ok
            THEN /\ response' =
                       Response("handleRecheckAnalysis", CaughtCode(cloned.message),
                                RecheckCaughtError(cloned.message))
                 /\ UNCHANGED <<app_analyses, alerts, now>>
            ELSE IF fault.at = "alert_query"
            THEN /\ response' =
                       Response("handleRecheckAnalysis", CaughtCode(DatabaseError),
                                RecheckCaughtError(DatabaseError))
                 /\ UNCHANGED <<app_analyses, alerts, now>>
            ELSE IF Len(alerts) + Len(list) > MaxAlerts
            THEN FALSE
            ELSE IF fault.at = "alert_insert"
            THEN /\ fault.done < Len(list)
                 /\ alerts' = table
                 /\ now' = now + delay
                 /\ response' =
                       Response("handleRecheckAnalysis", CaughtCode(DatabaseError),
                                RecheckCaughtError(DatabaseError))
                 /\ UNCHANGED app_analyses
            ELSE IF fault.at = "update"
            THEN /\ alerts' = table
                 /\ now' = now + delay
                 /\ response' =
                       Response("handleRecheckAnalysis", CaughtCode(DatabaseError),
                                RecheckCaughtError(DatabaseError))
                 /\ UNCHANGED app_analyses
            ELSE /\ alerts' = table
                 /\ now' = now + delay
                 /\ app_analyses' =
                       [app_analyses EXCEPT ![analysisId] =
                           [updatedAnalysis EXCEPT
                               !.launch_confidence_score = verdict.confidence_score]]
                 /\ response' =
                       [Response("handleRecheckAnalysis", 200, "") EXCEPT
                           !.analysisId = analysisId,
                           !.verdict = Some(verdict),
                           !.newAlerts = savedAlerts,
                           !.previousConfidenceScore =
                               existingAnalysis.launch_confidence_score]
    /\ UNCHANGED <<call, ret>>

(***************************************************************************)
(* routes/alerts.ts                                                        *)
(***************************************************************************)
\* PATCH /api/alerts/:alertId/read.  userId is optional; the route always
\* carries an alertId, so the 400 answer does not occur.
handleMarkAlertAsRead(userId, alertId, fault) ==
    /\ (fault.at = "update" =>
            alertId \in 1..Len(alerts) /\ Some(alerts[alertId].user_id) = userId)
    /\ IF fault.at = "select"
       THEN /\ response' = Response("handleMarkAlertAsRead", 500, "Failed to update alert")
            /\ UNCHANGED alerts
       ELSE IF alertId \notin 1..Len(alerts)
       THEN /\ response' = Response("handleMarkAlertAsRead", 404, "Alert not found")
            /\ UNCHANGED alerts
       ELSE IF Some(alerts[alertId].user_id) # userId
       THEN /\ response' = Response("handleMarkAlertAsRead", 403,
                   "Unauthorized access to alert")
            /\ UNCHANGED alerts
       ELSE IF fault.at = "update"
       THEN /\ response' = Response("handleMarkAlertAsRead", 500, "Failed to update alert")
            /\ UNCHANGED alerts
       ELSE /\ alerts' = [alerts EXCEPT ![alertId].read_at = Some(now)]
            /\ response' = Response("handleMarkAlertAsRead", 200, "")
    /\ UNCHANGED <<app_analyses, now, call, ret>>

\* A day passes.
Tick ==
    /\ now' = now + 1
    /\ UNCHANGED <<app_analyses, alerts, response, call, ret>>

(***************************************************************************)
(* The handlers' specification.                                            *)
(***************************************************************************)
OptionalUsers == {Undefined} \cup {Some(u) : u \in Users}
OptionalUrls == {Undefined} \cup {Some(u) : u \in Urls}
NoCall == [fn |-> "none"]
NoReturn == [fn |-> "none"]

Init ==
    /\ app_analyses = <<>>
    /\ alerts = <<>>
    /\ now = 0
    /\ response = NoResponse
    /\ call = NoCall
    /\ ret = NoReturn

Next ==
    \/ \E userId \in OptionalUsers, github_url \in OptionalUrls,
          uploaded_file \in BOOLEAN, fault \in {NoFault, Fault("insert", 0)} :
          handleAnalyze(userId, github_url, uploaded_file, fault)
    \/ \E analysisId \in 1..MaxAnalyses, remote \in Remotes,
          fault \in {NoFault, Fault("update", 0)} :
          handleAnalyzeFinish(analysisId, remote, fault)
    \/ \E userId \in OptionalUsers, analysisId \in 1..MaxAnalyses,
          remote \in Remotes, fault \in RecheckFaults, delay \in 0..MaxDelay :
          /\ now + delay <= MaxReadTime
          /\ handleRecheckAnalysis(userId, analysisId, remote, fault, delay)
    \/ \E userId \in OptionalUsers, alertId \in 1..MaxAlerts,
          fault \in {NoFault, Fault("select", 0), Fault("update", 0)} :
          handleMarkAlertAsRead(userId, alertId, fault)
    \/ (now < MaxReadTime /\ Tick)

Spec == Init /\ [][Next]_vars

(***************************************************************************)
(* The specification of analyses and re-checks over more than one cooldown *)
(* window.                                                                 *)
(***************************************************************************)
NextRecheck ==
    \/ \E userId \in OptionalUsers, github_url \in OptionalUrls,
          uploaded_file \in BOOLEAN, fault \in {NoFault, Fault("insert", 0)} :
          handleAnalyze(userId, github_url, uploaded_file, fault)
    \/ \E analysisId \in 1..MaxAnalyses, remote \in Remotes,
          fault \in {NoFault, Fault("update", 0)} :
          handleAnalyzeFinish(analysisId, remote, fault)
    \/ \E userId \in OptionalUsers, analysisId \in 1..MaxAnalyses,
          remote \in Remotes, fault \in RecheckFaults, delay \in 0..MaxDelay :
          /\ now + delay <= MaxTime
          /\ handleRecheckAnalysis(userId, analysisId, remote, fault, delay)
    \/ (now < MaxTime /\ Tick)

SpecRecheck == Init /\ [][NextRecheck]_vars

(***************************************************************************)
(* The specification of evaluateAlerts as a function of its arguments and  *)
(* of the alert history it queries.                                        *)
(***************************************************************************)
EvalProfiles ==
    {BehaviorProfile(stateful, write, jobs, FALSE, risk, deps) :
        stateful \in BOOLEAN, write \in BOOLEAN, jobs \in BOOLEAN,
        risk \in RiskLevels, deps \in 0..MaxDeps}

PreviousProfiles ==
    {Undefined} \cup {Some(p) : p \in EvalProfiles \cup {EmptyBehaviorProfile}}

\* a previous and a new profile between which all five rules hold
CalmProfile == BehaviorProfile(FALSE, FALSE, FALSE, FALSE, "low", 0)
BusyProfile == BehaviorProfile(TRUE, TRUE, TRUE, FALSE, "high", 3)

EvalClock == MaxAge
EvalUser == "u1"
EvalAnalysis == 1

\* ages of the alerts of a history, oldest first
Ages == <<MaxAge, CooldownDays, CooldownDays - 1, 3, 0>>
CategorySeq ==
    <<"usage_growth", "cost_risk", "architecture_drift",
      "platform_suitability", "stability_regression">>
UserSeq == <<"u1", "u2">>
HistoryRowCount == Len(Ages) * Len(CategorySeq) * Len(UserSeq) * 2

\* the n-th stored alert a history may hold, n in 0..HistoryRowCount - 1
HistoryRow(n) ==
    [user_id |-> UserSeq[(n % 2) + 1],
     analysis_id |-> ((n \div 2) % 2) + 1,
     category |-> CategorySeq[((n \div 4) % 5) + 1],
     created_at |-> EvalClock - Ages[(n \div 20) + 1]]

RECURSIVE HistoryTable(_, _)
HistoryTable(table, rows) ==
    IF rows = <<>> THEN table
    ELSE LET row == HistoryRow(Head(rows))
             alert == createAlert(row.created_at, row.user_id, row.analysis_id,
                                  row.category, "informational", "", "", "", "")
         IN HistoryTable(Append(table, InsertedAlert(table, row.created_at, alert)),
                         Tail(rows))

\* alert tables of at most MaxHistory rows, in the order of their creation
Histories ==
    {HistoryTable(<<>>, rows) :
        rows \in {r \in UNION {[1..n -> 0..(HistoryRowCount - 1)] : n \in 0..MaxHistory} :
                    \A i \in 1..(Len(r) - 1) : r[i] < r[i + 1]}}

EvalCall(table, newProfile, previousProfile) ==
    [fn |-> "evaluateAlerts", table |-> table, clock |-> EvalClock,
     analysisId |-> EvalAnalysis, userId |-> EvalUser,
     newProfile |-> newProfile, previousProfile |-> previousProfile]

EvalCalls ==
    {EvalCall(<<>>, new, prev) : new \in EvalProfiles, prev \in PreviousProfiles}
    \cup {EvalCall(table, BusyProfile, prev) :
            table \in Histories,
            prev \in {Undefined, Some(CalmProfile), Some(EmptyBehaviorProfile)}}

InitEval ==
    /\ app_analyses = <<>>
    /\ alerts = <<>>
    /\ now = 0
    /\ response = NoResponse
    /\ call \in EvalCalls
    /\ ret = NoReturn

CallEvaluateAlerts ==
    /\ call.fn = "evaluateAlerts"
    /\ ret.fn = "none"
    /\ ret' = [fn |-> "evaluateAlerts",
               value |-> evaluateAlerts(call.table, call.clock, call.analysisId,
                                        call.userId, call.newProfile,
                                        call.previousProfile)]
    /\ UNCHANGED <<app_analyses, alerts, now, response, call>>

NextEval == CallEvaluateAlerts

SpecEval == InitEval /\ [][NextEval]_vars

(***************************************************************************)
(* The specification of calculateLaunchConfidence and                      *)
(* generateLaunchVerdict as functions of their arguments.                  *)
(***************************************************************************)
\* the profile without the fields of `fields`
Without(profile, fields) ==
    [f \in DOMAIN profile |->
        IF f = "missing" THEN fields
        ELSE IF f \in fields THEN EmptyBehaviorProfile[f]
        ELSE profile[f]]

\* behaviour profiles, complete or with any of their fields missing
ScoreProfiles ==
    {Without(BehaviorProfile(stateful, write, jobs, FALSE, risk, deps), fields) :
        stateful \in BOOLEAN, write \in BOOLEAN, jobs \in BOOLEAN,
        risk \in RiskLevels, deps \in 0..MaxScoreDeps,
        fields \in SUBSET BehaviorFields}

SqliteStack ==
    [Analyzed[QuietContent].stackProfile EXCEPT
        !.database = "SQLite", !.databases = <<"SQLite">>]

ScoreStacks ==
    {EmptyStackProfile, SqliteStack} \cup {Analyzed[c].stackProfile : c \in RouteContents}

ScoreCalls ==
    {[fn |-> "calculateLaunchConfidence", stackProfile |-> stack,
      behaviorProfile |-> behavior] :
        stack \in ScoreStacks, behavior \in ScoreProfiles}

VerdictCalls ==
    {[fn |-> "generateLaunchVerdict",
      analysis |-> [AnalysisRow(1, "u1", "https://github.com/acme/app") EXCEPT
                       !.stack_detection = stack,
                       !.behavior_profile = behavior]] :
        stack \in ScoreStacks, behavior \in ScoreProfiles}

InitJudge ==
    /\ app_analyses = <<>>
    /\ alerts = <<>>
    /\ now = 0
    /\ response = NoResponse
    /\ call \in ScoreCalls \cup VerdictCalls
    /\ ret = NoReturn

CallCalculateLaunchConfidence ==
    /\ call.fn = "calculateLaunchConfidence"
    /\ ret.fn = "none"
    /\ ret' = [fn |-> "calculateLaunchConfidence",
               value |-> calculateLaunchConfidence(call.stackProfile,
                                                   call.behaviorProfile)]
    /\ UNCHANGED <<app_analyses, alerts, now, response, call>>

CallGenerateLaunchVerdict ==
    /\ call.fn = "generateLaunchVerdict"
    /\ ret.fn = "none"
    /\ ret' = [fn |-> "generateLaunchVerdict",
               value |-> generateLaunchVerdict(call.analysis)]
    /\ UNCHANGED <<app_analyses, alerts, now, response, call>>

NextJudge ==
    \/ CallCalculateLaunchConfidence
    \/ CallGenerateLaunchVerdict

SpecJudge == InitJudge /\ [][NextJudge]_vars

(***************************************************************************)
(* The specification of detectRisks as a function of its arguments.        *)
(***************************************************************************)
RiskDatabases ==
    {Undefined} \cup {Some(d) : d \in {"PostgreSQL", "SQLite", "MySQL", "MongoDB", "Managed MySQL"}}

RiskPlatforms ==
    {Undefined} \cup {Some(d) : d \in {"Vercel", "Netlify", "Replit", "Fly.io"}}

\* a stack profile with at most a database and a deployment platform
StackWith(database, platform) ==
    [EmptyStackProfile EXCEPT
        !.database = OptValue(database),
        !.databases = IF IsDefined(database) THEN <<Value(database)>> ELSE <<>>,
        !.deployment_platform = OptValue(platform),
        !.missing = (StackFields
                        \ (IF IsDefined(database) THEN {"database", "databases"} ELSE {}))
                        \ (IF IsDefined(platform) THEN {"deployment_platform"} ELSE {})]

\* a stack profile whose database is named by its list of databases alone
DatabasesOnlyStack ==
    [EmptyStackProfile EXCEPT
        !.databases = <<"SQLite", "PostgreSQL">>,
        !.missing = StackFields \ {"databases"}]

RiskStacks ==
    {StackWith(database, platform) :
        database \in RiskDatabases, platform \in RiskPlatforms}
    \cup {DatabasesOnlyStack}

RiskCalls ==
    {[fn |-> "detectRisks", stackProfile |-> stack, behaviorProfile |-> behavior] :
        stack \in RiskStacks, behavior \in ScoreProfiles}

InitRisk ==
    /\ app_analyses = <<>>
    /\ alerts = <<>>
    /\ now = 0
    /\ response = NoResponse
    /\ call \in RiskCalls
    /\ ret = NoReturn

CallDetectRisks ==
    /\ call.fn = "detectRisks"
    /\ ret.fn = "none"
    /\ ret' = [fn |-> "detectRisks",
               value |-> detectRisks(call.stackProfile, call.behaviorProfile)]
    /\ UNCHANGED <<app_analyses, alerts, now, response, call>>

NextRisk == CallDetectRisks

SpecRisk == InitRisk /\ [][NextRisk]_vars

(***************************************************************************)
(* The specification of repeated calls of the judgment functions: any call *)
(* follows any other while the clock advances; ret is the log of the calls *)
(* made, each with its arguments, its day and its result.                  *)
(***************************************************************************)
ServerlessStack == StackWith(Undefined, Some("Vercel"))

RepeatCalls ==
    {[fn |-> fn, stackProfile |-> stack, behaviorProfile |-> behavior] :
        fn \in {"calculateLaunchConfidence", "detectRisks"},
        stack \in {SqliteStack, ServerlessStack},
        behavior \in {CalmProfile, BusyProfile}}
    \cup {[fn |-> "recommendPlatform", stackProfile |-> stack,
           behaviorProfile |-> CalmProfile, currentPlatform |-> current] :
            stack \in {SqliteStack, ServerlessStack},
            current \in {Undefined, Some("Vercel")}}
    \cup {[fn |-> "recommendNextStep", stackProfile |-> stack,
           behaviorProfile |-> BusyProfile, stage |-> stage] :
            stack \in {SqliteStack, ServerlessStack},
            stage \in {"mvp", "production"}}

Apply(c) ==
    CASE c.fn = "calculateLaunchConfidence" ->
            calculateLaunchConfidence(c.stackProfile, c.behaviorProfile)
      [] c.fn = "detectRisks" -> detectRisks(c.stackProfile, c.behaviorProfile)
      [] c.fn = "recommendPlatform" ->
            recommendPlatform(c.stackProfile, c.behaviorProfile, c.currentPlatform)
      [] c.fn = "recommendNextStep" ->
            recommendNextStep(c.stackProfile, c.behaviorProfile, c.stage)

InitRepeat ==
    /\ app_analyses = <<>>
    /\ alerts = <<>>
    /\ now = 0
    /\ response = NoResponse
    /\ call = NoCall
    /\ ret = <<>>

CallJudgment(c) ==
    /\ Len(ret) < MaxCalls
    /\ call' = c
    /\ ret' = Append(ret, [call |-> c, at |-> now, value |-> Apply(c)])
    /\ UNCHANGED <<app_analyses, alerts, now, response>>

NextRepeat ==
    \/ \E c \in RepeatCalls : CallJudgment(c)
    \/ (now < MaxCallTime /\ Tick)

SpecRepeat == InitRepeat /\ [][NextRepeat]_vars

(***************************************************************************)
(* The specification of detectStack: one call on a drawn AppContent.       *)
(***************************************************************************)
PlatformFiles == {"vercel.json", ".replit", "replit.nix", "fly.toml", "railway.json"}

StackManifests ==
    {Undefined}
    \cup {PackageJson(dependencies, devDependencies, 0) :
            dependencies \in SUBSET {"express", "stripe", "pg"},
            devDependencies \in SUBSET {"stripe", "@aws-sdk/client-s3"}}

StackRequirements ==
    {Undefined, Some({"requests"}), Some({"flask"}), Some({"django", "psycopg2"})}

StackCalls ==
    {[fn |-> "detectStack",
      appContent |-> AppContent(files, NoSignals, packageJson, requirements)] :
        files \in SUBSET PlatformFiles,
        packageJson \in StackManifests,
        requirements \in StackRequirements}

InitStack ==
    /\ app_analyses = <<>>
    /\ alerts = <<>>
    /\ now = 0
    /\ response = NoResponse
    /\ call \in StackCalls
    /\ ret = NoReturn

CallDetectStack ==
    /\ call.fn = "detectStack"
    /\ ret.fn = "none"
    /\ ret' = [fn |-> "detectStack", value |-> detectStack(call.appContent)]
    /\ UNCHANGED <<app_analyses, alerts, now, response, call>>

NextStack == CallDetectStack

SpecStack == InitStack /\ [][NextStack]_vars

(***************************************************************************)
(* The specification of analyzePatterns: one call on a drawn AppContent,   *)
(* its file map missing, empty or holding a source file.                   *)
(***************************************************************************)
PatternSignals ==
    {CodeSignals(state, writes, 1, jobs, uploads, pool) :
        state \in BOOLEAN, writes \in {0, 2}, jobs \in BOOLEAN,
        uploads \in BOOLEAN, pool \in BOOLEAN}

PatternManifests ==
    {Undefined}
    \cup {PackageJson(dependencies, {}, others) :
            dependencies \in {{}, {"pg"}, {"sqlite3"}, {"pg", "sqlite3"}},
            others \in {0, MaxOthers - 1, MaxOthers}}

PatternRequirements == {Undefined, Some({"psycopg2"})}

PatternContents ==
    {AppContent(files, code, packageJson, requirements) :
        files \in {{}, {"server.js"}},
        code \in PatternSignals,
        packageJson \in PatternManifests,
        requirements \in PatternRequirements}

PatternCalls ==
    {[fn |-> "analyzePatterns", appContent |-> content] :
        content \in PatternContents \cup {WithoutFiles(c) : c \in PatternContents}}

InitPatterns ==
    /\ app_analyses = <<>>
    /\ alerts = <<>>
    /\ now = 0
    /\ response = NoResponse
    /\ call \in PatternCalls
    /\ ret = NoReturn

CallAnalyzePatterns ==
    /\ call.fn = "analyzePatterns"
    /\ ret.fn = "none"
    /\ ret' = [fn |-> "analyzePatterns", value |-> analyzePatterns(call.appContent)]
    /\ UNCHANGED <<app_analyses, alerts, now, response, call>>

NextPatterns == CallAnalyzePatterns

SpecPatterns == InitPatterns /\ [][NextPatterns]_vars

(***************************************************************************)
(* The specification of recommendPlatform and recommendNextStep as         *)
(* functions of their arguments.                                           *)
(***************************************************************************)
AdviseRuntimes == {Undefined, Some("Node.js"), Some("Python"), Some("node")}
AdviseFrameworks == {Undefined, Some("Express"), Some("Next.js")}
AdviseDatabases == {Undefined, Some("SQLite"), Some("PostgreSQL"), Some("MySQL")}

\* a stack profile with at most a runtime, a framework and a database
AdviseStack(runtime, framework, database) ==
    [StackWith(database, Undefined) EXCEPT
        !.runtime = OptValue(runtime),
        !.framework = OptValue(framework),
        !.missing = (@ \ (IF IsDefined(runtime) THEN {"runtime"} ELSE {}))
                       \ (IF IsDefined(framework) THEN {"framework"} ELSE {})]

AdviseStacks ==
    {AdviseStack(runtime, framework, database) :
        runtime \in AdviseRuntimes, framework \in AdviseFrameworks,
        database \in AdviseDatabases}

\* complete behaviour profiles, and the profile with every field missing
AdviseProfiles ==
    {BehaviorProfile(stateful, write, jobs, FALSE, risk, deps) :
        stateful \in BOOLEAN, write \in BOOLEAN, jobs \in BOOLEAN,
        risk \in RiskLevels, deps \in {0, 4, 6}}
    \cup {EmptyBehaviorProfile}

\* no platform, the empty name, the four candidates and another platform
CurrentPlatforms ==
    {Undefined} \cup {Some(name) : name \in {"", "Replit", "Vercel", "Railway", "Fly.io", "Netlify"}}

PlatformCalls ==
    {[fn |-> "recommendPlatform", stackProfile |-> stack,
      behaviorProfile |-> behavior, currentPlatform |-> current] :
        stack \in AdviseStacks, behavior \in AdviseProfiles,
        current \in CurrentPlatforms}

NextStepCalls ==
    {[fn |-> "recommendNextStep", stackProfile |-> stack,
      behaviorProfile |-> behavior, stage |-> stage] :
        stack \in AdviseStacks, behavior \in AdviseProfiles, stage \in Stages}

InitAdvise ==
    /\ app_analyses = <<>>
    /\ alerts = <<>>
    /\ now = 0
    /\ response = NoResponse
    /\ call \in PlatformCalls \cup NextStepCalls
    /\ ret = NoReturn

CallRecommendPlatform ==
    /\ call.fn = "recommendPlatform"
    /\ ret.fn = "none"
    /\ ret' = [fn |-> "recommendPlatform",
               value |-> recommendPlatform(call.stackProfile, call.behaviorProfile,
                                           call.currentPlatform)]
    /\ UNCHANGED <<app_analyses, alerts, now, response, call>>

CallRecommendNextStep ==
    /\ call.fn = "recommendNextStep"
    /\ ret.fn = "none"
    /\ ret' = [fn |-> "recommendNextStep",
               value |-> recommendNextStep(call.stackProfile, call.behaviorProfile,
                                           call.stage)]
    /\ UNCHANGED <<app_analyses, alerts, now, response, call>>

NextAdvise ==
    \/ CallRecommendPlatform
    \/ CallRecommendNextStep

SpecAdvise == InitAdvise /\ [][NextAdvise]_vars

(***************************************************************************)
(* The specification of overlapping re-checks: handleRecheckAnalysis cut   *)
(* at its awaits, so that the steps of several requests interleave.  call  *)
(* holds, per request, where the request stands and what it has read.      *)
(* Database faults are left to the handlers' specification.                *)
(***************************************************************************)
Requests == 1..MaxRequests

IdleRequest ==
    [pc |-> "idle", userId |-> "", analysisId |-> 0,
     existingAnalysis |-> AnalysisRow(0, "", ""), content |-> QuietContent,
     list |-> <<>>, savedAlerts |-> <<>>]

\* up to the SELECT of the row and the checks on it
handleRecheckAnalysisSelect(r, userId, analysisId) ==
    /\ call[r].pc = "idle"
    /\ IF analysisId \notin 1..Len(app_analyses)
       THEN /\ response' = Response("handleRecheckAnalysis", 404, "Analysis not found")
            /\ UNCHANGED call
       ELSE IF app_analyses[analysisId].user_id # userId
       THEN /\ response' = Response("handleRecheckAnalysis", 403,
                   "Forbidden: You do not own this analysis")
            /\ UNCHANGED call
       ELSE /\ call' = [call EXCEPT ![r] =
                    [IdleRequest EXCEPT
                        !.pc = "cloning", !.userId = userId,
                        !.analysisId = analysisId,
                        !.existingAnalysis = app_analyses[analysisId]]]
            /\ UNCHANGED response
    /\ UNCHANGED <<app_analyses, alerts, now, ret>>

\* the clone, the analysis and the alert-history query of evaluateAlerts
handleRecheckAnalysisEvaluate(r, remote) ==
    /\ call[r].pc = "cloning"
    /\ LET request == call[r]
           cloned == cloneGitHubRepo(request.existingAnalysis.github_url, remote)
           newBehaviorProfile == Analyzed[cloned.content].behaviorProfile
           list == evaluateAlerts(alerts, now, request.analysisId, request.userId,
                                  newBehaviorProfile,
                                  Some(request.existingAnalysis.behavior_profile))
       IN IF ~cloned.ok
          THEN /\ response' =
                     Response("handleRecheckAnalysis", CaughtCode(cloned.message),
                              RecheckCaughtError(cloned.message))
               /\ call' = [call EXCEPT ![r] = IdleRequest]
          ELSE /\ call' = [call EXCEPT ![r].pc = "saving",
                                       ![r].content = cloned.content,
                                       ![r].list = list]
               /\ UNCHANGED response
    /\ UNCHANGED <<app_analyses, alerts, now, ret>>

\* one INSERT of saveAlerts
handleRecheckAnalysisInsert(r) ==
    /\ call[r].pc = "saving"
    /\ Len(call[r].savedAlerts) < Len(call[r].list)
    /\ Len(alerts) < MaxAlerts
    /\ LET alert == InsertedAlert(alerts, now,
                                  call[r].list[Len(call[r].savedAlerts) + 1])
       IN /\ alerts' = Append(alerts, alert)
          /\ call' = [call EXCEPT ![r].savedAlerts = Append(@, alert)]
    /\ UNCHANGED <<app_analyses, now, response, ret>>

\* the verdict, the UPDATE of the analysis and the response
handleRecheckAnalysisUpdate(r) ==
    /\ call[r].pc = "saving"
    /\ Len(call[r].savedAlerts) = Len(call[r].list)
    /\ LET request == call[r]
           updatedAnalysis ==
               [request.existingAnalysis EXCEPT
                   !.stack_detection = Analyzed[request.content].stackProfile,
                   !.behavior_profile = Analyzed[request.content].behaviorProfile]
           verdict == generateLaunchVerdict(updatedAnalysis)
       IN /\ app_analyses' =
                [app_analyses EXCEPT ![request.analysisId] =
                    [@ EXCEPT
                        !.stack_detection = updatedAnalysis.stack_detection,
                        !.behavior_profile = updatedAnalysis.behavior_profile,
                        !.launch_confidence_score = verdict.confidence_score]]
          /\ response' =
                [Response("handleRecheckAnalysis", 200, "") EXCEPT
                    !.analysisId = request.analysisId,
                    !.verdict = Some(verdict),
                    !.newAlerts = request.savedAlerts,
                    !.previousConfidenceScore =
                        request.existingAnalysis.launch_confidence_score]
          /\ call' = [call EXCEPT ![r] = IdleRequest]
    /\ UNCHANGED <<alerts, now, ret>>

InitOverlap ==
    /\ app_analyses = <<>>
    /\ alerts = <<>>
    /\ now = 0
    /\ response = NoResponse
    /\ call = [r \in Requests |-> IdleRequest]
    /\ ret = NoReturn

NextOverlap ==
    \/ \E userId \in OptionalUsers, github_url \in OptionalUrls :
          handleAnalyze(userId, github_url, FALSE, NoFault)
    \/ \E analysisId \in 1..MaxAnalyses, remote \in Remotes :
          handleAnalyzeFinish(analysisId, remote, NoFault)
    \/ \E r \in Requests, userId \in Users, analysisId \in 1..MaxAnalyses :
          handleRecheckAnalysisSelect(r, userId, analysisId)
    \/ \E r \in Requests, remote \in Remotes :
          handleRecheckAnalysisEvaluate(r, remote)
    \/ \E r \in Requests : handleRecheckAnalysisInsert(r)
    \/ \E r \in Requests : handleRecheckAnalysisUpdate(r)
    \/ (now < MaxDelay /\ Tick)

SpecOverlap == InitOverlap /\ [][NextOverlap]_vars

(***************************************************************************)
(* The specification of the two sources of a file map: fetchFiles, cut at  *)
(* the completion of each file request, and parseZipUpload.  Sizes are in  *)
(* KB.  A tree item carries the size the tree states (optional) and the    *)
(* size of the content the blob request returns; ret holds the progress of *)
(* the call: the loop index, the requests started and finished, the file   *)
(* map.                                                                    *)
(***************************************************************************)
TreeItem(path, type, size, bytes) ==
    [path |-> path, type |-> type, size |-> size, bytes |-> bytes]

SourceFile(k) ==
    TreeItem("src/f" \o ToString(k) \o ".js", "blob", Some(1), 1)

SourceFiles(n) == [k \in 1..n |-> SourceFile(k)]

\* a directory, a skipped path, a file above the ceiling, a large file whose
\* tree entry has no size, a file of exactly the ceiling
SpecialItems ==
    << TreeItem("src", "tree", Undefined, 0),
       TreeItem("node_modules/lib.js", "blob", Some(1), 1),
       TreeItem("assets/big.bin", "blob", Some(200), 200),
       TreeItem("assets/nosize.bin", "blob", Undefined, 200),
       TreeItem("assets/exact.txt", "blob", Some(SizeCeiling), SizeCeiling) >>

Trees ==
    {SourceFiles(n) : n \in 0..MaxFiles}
    \cup {SpecialItems \o SourceFiles(n) : n \in 0..1}

\* skipPatterns.some((pattern) => pattern.test(path)) over the drawn paths
SkipPatternMatches(path) == path \in {"node_modules/lib.js", "yarn.lock"}

\* item.size && item.size > 100 * 1024
AboveCeiling(size) ==
    IsDefined(size) /\ Value(size) # 0 /\ Value(size) > SizeCeiling

RECURSIVE FilesToFetch(_)
FilesToFetch(tree) ==
    IF tree = <<>> THEN <<>>
    ELSE LET item == tree[Len(tree)]
             front == FilesToFetch(SubSeq(tree, 1, Len(tree) - 1))
         IN IF item.type # "blob" THEN front
            ELSE IF SkipPatternMatches(item.path) THEN front
            ELSE IF AboveCeiling(item.size) THEN front
            ELSE Append(front, item)

\* every remaining file in one batch
SliceRest(n, i) == {k \in 1..n : i < k}

\* filesToFetch.slice(i, i + concurrencyLimit), as positions 1..n
SliceBatch(n, i) == {k \in 1..n : i < k /\ k <= i + concurrencyLimit}

\* the filter and the start of the first batch
fetchFilesBegin ==
    /\ call.fn = "fetchFiles"
    /\ ret.fn = "none"
    /\ LET n == Len(FilesToFetch(call.tree))
       IN ret' = [fn |-> "fetchFiles", i |-> 0, started |-> SliceBatch(n, 0),
                  finished |-> {}, files |-> {}, returned |-> n = 0]
    /\ UNCHANGED <<app_analyses, alerts, now, response, call>>

\* the request of file k ends: its content enters the file map, or the
\* response is not ok, carries no base64 content, or the request throws
fetchFileDone(k, stored) ==
    /\ ret.fn = "fetchFiles"
    /\ k \in ret.started \ ret.finished
    /\ LET file == FilesToFetch(call.tree)[k]
       IN ret' = [ret EXCEPT
                    !.finished = @ \cup {k},
                    !.files = IF stored
                              THEN @ \cup {[path |-> file.path, bytes |-> file.bytes]}
                              ELSE @]
    /\ UNCHANGED <<app_analyses, alerts, now, response, call>>

\* Promise.all of the batch resolves: the next batch starts, or the loop ends
fetchFilesNextBatch ==
    /\ ret.fn = "fetchFiles"
    /\ ~ret.returned
    /\ ret.started \subseteq ret.finished
    /\ LET n == Len(FilesToFetch(call.tree))
           i == ret.i + concurrencyLimit
       IN ret' = IF i < n
                 THEN [ret EXCEPT !.i = i, !.started = @ \cup SliceBatch(n, i)]
                 ELSE [ret EXCEPT !.i = i, !.returned = TRUE]
    /\ UNCHANGED <<app_analyses, alerts, now, response, call>>

ZipEntry(entryName, isDirectory, bytes, readable) ==
    [entryName |-> entryName, isDirectory |-> isDirectory, bytes |-> bytes,
     readable |-> readable]

ZipEntries ==
    {ZipEntry("src/", TRUE, 0, TRUE),
     ZipEntry("node_modules/lib.js", FALSE, 1, TRUE),
     ZipEntry("src/app.js", FALSE, 1, TRUE),
     ZipEntry("assets/video.bin", FALSE, 200, TRUE),
     ZipEntry("assets/broken.bin", FALSE, 1, FALSE)}

\* a buffer that is no ZIP archive, or the entries of the archive
Zips == {Undefined} \cup {Some(entries) : entries \in SUBSET ZipEntries}

parseZipUpload ==
    /\ call.fn = "parseZipUpload"
    /\ ret.fn = "none"
    /\ ret' =
         IF ~IsDefined(call.zipBuffer)
         THEN [fn |-> "parseZipUpload", files |-> {}, threw |-> TRUE]
         ELSE [fn |-> "parseZipUpload",
               files |-> {[path |-> entry.entryName, bytes |-> entry.bytes] :
                            entry \in {e \in Value(call.zipBuffer) :
                                          /\ ~e.isDirectory
                                          /\ ~SkipPatternMatches(e.entryName)
                                          /\ e.readable}},
               threw |-> FALSE]
    /\ UNCHANGED <<app_analyses, alerts, now, response, call>>

FetchCalls ==
    {[fn |-> "fetchFiles", tree |-> tree] : tree \in Trees}
    \cup {[fn |-> "parseZipUpload", zipBuffer |-> zip] : zip \in Zips}

InitFetch ==
    /\ app_analyses = <<>>
    /\ alerts = <<>>
    /\ now = 0
    /\ response = NoResponse
    /\ call \in FetchCalls
    /\ ret = NoReturn

NextFetch ==
    \/ fetchFilesBegin
    \/ \E k \in 1..(MaxFiles + Len(SpecialItems)), stored \in BOOLEAN :
          fetchFileDone(k, stored)
    \/ fetchFilesNextBatch
    \/ parseZipUpload

SpecFetch == InitFetch /\ [][NextFetch]_vars

(***************************************************************************)
(* Properties of the alert lifecycle.                                      *)
(***************************************************************************)
SameAlertKey(a, b) ==
    /\ a.user_id = b.user_id
    /\ a.analysis_id = b.analysis_id
    /\ a.category = b.category

\* C1: after any sequence of non-overlapping re-checks, the stored alerts
\* never contain two alerts of the same (user, analysis, category) whose
\* creation times are strictly less than 7 days apart.
CooldownHolds ==
    \A i, j \in 1..Len(alerts) :
        (i < j /\ SameAlertKey(alerts[i], alerts[j]))
            => alerts[j].created_at - alerts[i].created_at >= 7

\* Two alerts of one (user, analysis, category) are stored, the second one
\* created once the window of the first had passed.
CooldownExpired ==
    \E i, j \in 1..Len(alerts) :
        /\ i < j
        /\ SameAlertKey(alerts[i], alerts[j])
        /\ alerts[j].created_at >= alerts[i].created_at + 7

\* C5: an alert is only ever created by a re-check, and only by one of an
\* analysis whose stored behaviour profile is no longer the empty
\* placeholder written at creation.
AlertsOnlyAgainstStoredProfile ==
    [][\A k \in (Len(alerts) + 1)..Len(alerts') :
          /\ response'.handler = "handleRecheckAnalysis"
          /\ app_analyses[alerts'[k].analysis_id].behavior_profile
                # EmptyBehaviorProfile]_vars

\* The alert faults of a re-check: the history query fails, or an INSERT.
AlertFaults ==
    {Fault("alert_query", 0)} \cup {Fault("alert_insert", d) : d \in 0..MaxAlerts}

\* C6: a re-check whose fetch and analysis succeed, and whose alert
\* evaluation or alert saving raises an error, still answers 200 with the
\* new verdict.
AlertErrorsNeverFailRecheck ==
    [][\A userId \in OptionalUsers, analysisId \in 1..MaxAnalyses,
          remote \in Remotes, fault \in AlertFaults, delay \in 0..MaxDelay :
          (/\ IsDefined(userId)
           /\ analysisId \in 1..Len(app_analyses)
           /\ remote.answer = "OK"
           /\ handleRecheckAnalysis(userId, analysisId, remote, fault, delay))
             => (response'.code = 200 /\ IsDefined(response'.verdict))]_vars

\* C7: read_at of an alert changes at most once, from unset to set, and no
\* other field of a stored alert ever changes.
ReadAtSetOnce ==
    [][\A k \in 1..Len(alerts) :
          /\ k <= Len(alerts')
          /\ [alerts'[k] EXCEPT !.read_at = Undefined]
                = [alerts[k] EXCEPT !.read_at = Undefined]
          /\ (IsDefined(alerts[k].read_at)
                => alerts'[k].read_at = alerts[k].read_at)]_vars

(***************************************************************************)
(* Properties of evaluateAlerts.                                           *)
(***************************************************************************)
Evaluated == ret.fn = "evaluateAlerts"

ReturnedCount(category) ==
    Cardinality({k \in 1..Len(ret.value) : ret.value[k].category = category})

\* the trigger condition of a category, as the code tests it
TriggerHolds(category, previousProfile, newProfile) ==
    CASE category = "usage_growth" -> UsageGrowthRule(previousProfile, newProfile)
      [] category = "cost_risk" -> CostRiskRule(previousProfile, newProfile)
      [] category = "architecture_drift" ->
            ArchitectureDriftRule(previousProfile, newProfile)
      [] category = "platform_suitability" ->
            PlatformSuitabilityRule(previousProfile, newProfile)
      [] category = "stability_regression" ->
            StabilityRegressionRule(previousProfile, newProfile)

\* the history of the call holds an alert of this category, of the call's
\* user and analysis, created less than `days` days before the call
InHistory(category, days) ==
    \E i \in 1..Len(call.table) :
        /\ call.table[i].user_id = call.userId
        /\ call.table[i].analysis_id = call.analysisId
        /\ call.table[i].category = category
        /\ call.clock - call.table[i].created_at < days

\* C2: evaluateAlerts skips a category exactly when the history of the same
\* (user, analysis) holds an alert of that category created within the
\* trailing 7 days; alerts of other categories, users or analyses and
\* older alerts do not suppress a category whose trigger condition holds.
CooldownSkipsExactly ==
    (Evaluated /\ IsDefined(call.previousProfile)) =>
        \A category \in Categories :
            TriggerHolds(category, Value(call.previousProfile), call.newProfile)
                => (ReturnedCount(category) = 0 <=> InHistory(category, 7))

\* All five conditions hold; an alert of the same user and analysis created
\* 3 days ago suppresses its own category and no other.
SuppressedByRecentAlert ==
    /\ Evaluated
    /\ call.previousProfile = Some(CalmProfile)
    /\ \E category \in Categories :
          /\ InHistory(category, 4) /\ ~InHistory(category, 3)
          /\ ReturnedCount(category) = 0
          /\ \A other \in Categories \ {category} : ReturnedCount(other) = 1

CompleteProfile(profile) == profile.missing = {}

\* the five rules, as stated for complete profiles
RuleOf(category, previousProfile, newProfile) ==
    CASE category = "usage_growth" ->
            /\ previousProfile.estimated_concurrency_risk # "high"
            /\ newProfile.estimated_concurrency_risk = "high"
      [] category = "cost_risk" ->
            newProfile.external_dependency_count
                > previousProfile.external_dependency_count + 2
      [] category = "architecture_drift" ->
            ~previousProfile.is_stateful /\ newProfile.is_stateful
      [] category = "platform_suitability" ->
            newProfile.has_background_jobs /\ newProfile.write_heavy
      [] category = "stability_regression" ->
            ~previousProfile.has_background_jobs /\ newProfile.has_background_jobs

NoPreviousProfileNoAlerts ==
    (Evaluated /\ ~IsDefined(call.previousProfile)) => ret.value = <<>>

\* No previous profile, a new profile with background jobs and heavy writes,
\* a history without a recent alert: nothing is returned.
NoPreviousProfileCall ==
    /\ Evaluated
    /\ ~IsDefined(call.previousProfile)
    /\ call.newProfile = BusyProfile
    /\ call.table # <<>>
    /\ \A category \in Categories : ~InHistory(category, 7)
    /\ ret.value = <<>>

(***************************************************************************)
(* Properties of the judgment engine.                                      *)
(***************************************************************************)
Scored == ret.fn = "calculateLaunchConfidence"
Judged == ret.fn = "generateLaunchVerdict"

\* the four factor points, as stated for a complete behaviour profile
FactorSum(behavior) ==
    (IF ~behavior.is_stateful THEN 30 ELSE 10)
    + (IF ~behavior.write_heavy THEN 30 ELSE 10)
    + (IF behavior.external_dependency_count < 3 THEN 20
       ELSE IF behavior.external_dependency_count <= 5 THEN 10
       ELSE 5)
    + (CASE behavior.estimated_concurrency_risk = "low" -> 20
         [] behavior.estimated_concurrency_risk = "medium" -> 10
         [] behavior.estimated_concurrency_risk = "high" -> 5)

ScoreInRange ==
    Scored => (0 <= ret.value.score /\ ret.value.score <= 100)

\* The empty behaviour profile and the empty stack profile are scored: 70.
EmptyProfileScored ==
    /\ Scored
    /\ call.behaviorProfile = EmptyBehaviorProfile
    /\ call.stackProfile = EmptyStackProfile
    /\ ret.value.score = 70

StatusRank(status) ==
    CASE status = "fix" -> 0 [] status = "watch" -> 1 [] status = "safe" -> 2

StatusBoundaries ==
    /\ VerdictStatus(49) = "fix"
    /\ VerdictStatus(50) = "watch"
    /\ VerdictStatus(79) = "watch"
    /\ VerdictStatus(80) = "safe"

StatusMonotone ==
    \A a, b \in 0..100 :
        a <= b => StatusRank(VerdictStatus(a)) <= StatusRank(VerdictStatus(b))

\* C10: the status of every verdict is determined by its confidence score
\* alone: safe iff score >= 80, watch iff 50 <= score < 80, fix iff
\* score < 50, with 49 -> fix, 50 -> watch, 79 -> watch, 80 -> safe, and a
\* higher score never gives a less safe status.
StatusFromScore ==
    /\ StatusBoundaries
    /\ StatusMonotone
    /\ Judged =>
          LET score == ret.value.confidence_score
              status == ret.value.status
          IN /\ status = "safe" <=> score >= 80
             /\ status = "watch" <=> (50 <= score /\ score < 80)
             /\ status = "fix" <=> score < 50

\* A verdict with a score on the upper boundary, 80, is returned.
VerdictOnBoundary ==
    /\ Judged
    /\ ret.value.confidence_score = 80
    /\ ret.value.status = "safe"

(***************************************************************************)
(* Properties of detectRisks.                                              *)
(***************************************************************************)
Risked == ret.fn = "detectRisks"

\* the candidates of the call, whatever their order
Candidates ==
    LET pushed == DetectedRisks(call.stackProfile, call.behaviorProfile)
    IN {pushed[i] : i \in 1..Len(pushed)}

Returned == {ret.value[i] : i \in 1..Len(ret.value)}

\* C11: detectRisks never returns more than 3 risk scenarios, also when all
\* five rules fire.
AtMostThreeRisks ==
    Risked => Len(ret.value) <= 3

\* All five rules fire and three risks are returned.
FiveCandidatesThreeReturned ==
    /\ Risked
    /\ Cardinality(Candidates) = 5
    /\ Len(ret.value) = 3

Severer(a, b) == SeverityWeight(a.severity) > SeverityWeight(b.severity)

\* C12: the returned list is the first min(3, k) of the k firing candidates
\* sorted by severity descending and, within equal severity, by display
\* order ascending: no omitted candidate is severer than a returned one, nor
\* as severe as the last returned one with a smaller display order.
TopRisksBySeverityThenOrder ==
    Risked =>
        LET k == Cardinality(Candidates)
            n == Len(ret.value)
        IN /\ n = (IF k < 3 THEN k ELSE 3)
           /\ Returned \subseteq Candidates
           /\ Cardinality(Returned) = n
           /\ \A i, j \in 1..n :
                 i < j => \/ Severer(ret.value[i], ret.value[j])
                          \/ /\ ret.value[i].severity = ret.value[j].severity
                             /\ ret.value[i].order < ret.value[j].order
           /\ \A c \in Candidates \ Returned :
                 /\ \A r \in Returned : ~Severer(c, r)
                 /\ ~(/\ c.severity = ret.value[n].severity
                      /\ c.order < ret.value[n].order)

\* Five candidates; the two of high severity, pushed third and fifth, are
\* returned first, then the database contention of medium severity.
HighRisksMovedAhead ==
    /\ Risked
    /\ Cardinality(Candidates) = 5
    /\ Len(ret.value) = 3
    /\ ret.value[1].id = "external-deps" /\ ret.value[1].severity = "high"
    /\ ret.value[2].id = "concurrency-risk" /\ ret.value[2].severity = "high"
    /\ ret.value[3].id = "db-contention" /\ ret.value[3].severity = "medium"

AllLowRisk(behavior) ==
    /\ CompleteProfile(behavior)
    /\ ~behavior.write_heavy
    /\ ~behavior.is_stateful
    /\ behavior.external_dependency_count <= 2
    /\ behavior.estimated_concurrency_risk = "low"

\* C13: for every stack profile, an all-low-risk behaviour profile (not
\* write-heavy, not stateful, at most 2 dependencies, low concurrency risk)
\* makes detectRisks return the empty list.
AllLowRiskNoRisks ==
    (Risked /\ AllLowRisk(call.behaviorProfile)) => ret.value = <<>>

\* the database of the stack is SQLite-family, or not a managed one, or no
\* database was classified at all
SqliteOrUnmanaged(stack) ==
    LET database == StackDatabase(stack)
    IN \/ ~IsDefined(database)
       \/ Value(database) = "SQLite"
       \/ Value(database) \notin {"PostgreSQL", "Managed MySQL"}

\* C14: the database-contention risk is produced exactly when the behaviour
\* is write_heavy and the database is SQLite-family or unclassified or
\* unmanaged, no database at all included; its severity is high iff
\* estimated_concurrency_risk is high, else medium.
DatabaseContentionExactly ==
    (Risked /\ CompleteProfile(call.behaviorProfile)) =>
        LET found == {r \in Returned : r.id = "db-contention"}
        IN /\ found # {} <=> (/\ call.behaviorProfile.write_heavy
                              /\ SqliteOrUnmanaged(call.stackProfile))
           /\ \A r \in found :
                 r.severity =
                    IF call.behaviorProfile.estimated_concurrency_risk = "high"
                    THEN "high" ELSE "medium"

Stacked == ret.fn = "detectStack"

\* C16: with both a package.json and a requirements.txt in the input, the
\* runtime is the Node runtime and a framework found in the manifest is not
\* replaced by a Python framework.
NodeTakesPriority ==
    (/\ Stacked
     /\ IsDefined(call.appContent.packageJson)
     /\ IsDefined(call.appContent.requirements))
    => LET pkg == Value(call.appContent.packageJson)
           deps == pkg.dependencies \cup pkg.devDependencies
       IN /\ Has(ret.value, "runtime")
          /\ ret.value.runtime = "Node.js"
          /\ IsDefined(FirstFramework(deps, 1))
                => /\ Has(ret.value, "framework")
                   /\ ret.value.framework = Value(FirstFramework(deps, 1))

\* C17: external_apis is the same with and without the devDependencies
\* section of the manifest.
DevDependenciesNeverInExternalApis ==
    (Stacked /\ IsDefined(call.appContent.packageJson))
    => LET pkg == Value(call.appContent.packageJson)
           production == PackageJson(pkg.dependencies, {}, pkg.others)
           without == [call.appContent EXCEPT !.packageJson = production]
       IN ret.value.external_apis = detectStack(without).external_apis

\* C18: whenever a platform config file is present, deployment_platform is
\* the first of Vercel, Replit, Fly.io, Railway whose file is present, with
\* or without a manifest or a dependency list.
PlatformFromFilesAlone ==
    (Stacked /\ call.appContent.files \cap PlatformFiles # {})
    => /\ Has(ret.value, "deployment_platform")
       /\ ret.value.deployment_platform
            = Value(DeploymentPlatform(call.appContent.files))

(***************************************************************************)
(* Properties of analyzePatterns.                                          *)
(***************************************************************************)
Patterned == ret.fn = "analyzePatterns"

\* the call found a connection-pooling indicator in the text of the files
PoolingFound == call.appContent.files # {} /\ call.appContent.code.pool

\* the database detectStack reports for the input is SQLite-family
SqliteDetected ==
    LET stackProfile == detectStack(call.appContent)
    IN Has(stackProfile, "database") /\ IsSQLiteName(stackProfile.database)

NoFilesGivesDefaults ==
    (Patterned /\ (~Has(call.appContent, "files") \/ call.appContent.files = {}))
    => /\ ~Threw(ret.value)
       /\ ~ret.value.is_stateful
       /\ ~ret.value.write_heavy
       /\ ~ret.value.has_background_jobs
       /\ ~ret.value.has_file_uploads
       /\ ret.value.estimated_concurrency_risk = "low"
       /\ ret.value.external_dependency_count = 0

(***************************************************************************)
(* Properties of recommendNextStep and recommendPlatform.                  *)
(***************************************************************************)
NextStepped == ret.fn = "recommendNextStep"
Platformed == ret.fn = "recommendPlatform"

\* the call's stack names a SQLite database and its behaviour is write-heavy
SqliteWriteHeavyCall ==
    /\ IsDefined(StackDatabase(call.stackProfile))
    /\ IsSQLiteName(Value(StackDatabase(call.stackProfile)))
    /\ Flag(call.behaviorProfile, "write_heavy")

\* C25: recommendNextStep returns exactly one recommendation for every
\* (stack, behaviour, stage); upgrade_required is true only when mode is
\* small_upgrade and only at stage growth or production; the SQLite +
\* write-heavy database-upgrade suggestion has upgrade_required true at
\* stage growth and false at stage watch.
UpgradeRequiredGatedByStage ==
    NextStepped
    => /\ DOMAIN ret.value
            = {"mode", "headline", "explanation", "cta_text", "upgrade_required"}
       /\ ret.value.mode \in {"do_nothing", "watch_one_thing", "small_upgrade"}
       /\ ret.value.upgrade_required
            => /\ ret.value.mode = "small_upgrade"
               /\ call.stage \in {"growth", "production"}
       /\ (SqliteWriteHeavyCall /\ call.stage \in {"watch", "growth"})
            => /\ ret.value.headline = "Before charging users, switch to managed DB"
               /\ ret.value.upgrade_required <=> call.stage = "growth"

\* The database-upgrade suggestion is returned at stage watch, without
\* upgrade_required.
DatabaseUpgradeSuggestedAtWatch ==
    /\ NextStepped
    /\ SqliteWriteHeavyCall
    /\ call.stage = "watch"
    /\ ret.value.mode = "small_upgrade"
    /\ ~ret.value.upgrade_required

\* a non-empty currentPlatform was passed
PlatformSupplied ==
    IsDefined(call.currentPlatform) /\ Value(call.currentPlatform) # ""

CandidatePlatforms == ScoredPlatforms(call.stackProfile, call.behaviorProfile)

\* the candidates the current platform names
NamedCandidates ==
    {i \in 1..Len(CandidatePlatforms) :
        /\ PlatformSupplied
        /\ LowerIncludes(Value(call.currentPlatform), CandidatePlatforms[i].id)}

HighestScore(i) ==
    \A j \in 1..Len(CandidatePlatforms) :
        CandidatePlatforms[j].score <= CandidatePlatforms[i].score

\* C26: recommendPlatform keeps the current platform exactly when it names a
\* candidate whose own score is >= 70, with the "stay where you are" badge;
\* otherwise it returns a highest-scoring candidate, with the "consider
\* upgrading" badge iff a current platform was supplied; the result has 1 or
\* 2 why-bullets.
StayOrHighestScore ==
    Platformed
    => /\ Len(ret.value.why_bullets) \in 1..2
       /\ IF \E i \in NamedCandidates : CandidatePlatforms[i].score >= 70
          THEN /\ \E i \in NamedCandidates :
                    ret.value.platform_id = CandidatePlatforms[i].id
               /\ ret.value.recommended_badge = "Stay where you are"
          ELSE /\ \E i \in 1..Len(CandidatePlatforms) :
                    /\ HighestScore(i)
                    /\ ret.value.platform_id = CandidatePlatforms[i].id
               /\ ret.value.recommended_badge
                    = (IF PlatformSupplied THEN "Consider upgrading"
                       ELSE "Recommended right now")

\* The current platform is kept at a score of exactly 70 while another
\* candidate scores higher.
StayedAtSeventyBelowTheBest ==
    /\ Platformed
    /\ ret.value.recommended_badge = "Stay where you are"
    /\ \E i \in NamedCandidates :
        /\ CandidatePlatforms[i].score = 70
        /\ ~HighestScore(i)

(***************************************************************************)
(* Properties of the factors list and of the verdict.                      *)
(***************************************************************************)
StatefulnessTexts ==
    {"App is stateless (safer)", "App is stateful (needs careful scaling)"}

DataHandlingTexts ==
    {"Clean read-heavy data access", "Write-heavy workload (watch for bottlenecks)"}

DependencyTexts ==
    {"Has " \o count \o rest :
        count \in {ToString(n) : n \in 0..MaxScoreDeps} \cup {"undefined"},
        rest \in {" external dependencies (minimal risk)",
                  " external API dependencies",
                  " external dependencies (monitor reliability)"}}

ConcurrencyTexts ==
    {"Low concurrency risk", "Medium concurrency risk",
     "High concurrency risk (plan for scaling)"}

NonScoringTexts ==
    {"Uses managed database (lower risk)",
     "Uses SQLite (consider upgrade for production)",
     "No background jobs detected",
     "Has background jobs (ensure separation from main app)"}

\* C27: in the factors list the four scoring factors occupy positions 1 to 4
\* in the order statefulness, data handling, dependencies, concurrency, and
\* the database and background-job strings come only after them.
ScoringFactorsFirst ==
    Scored
    => LET factors == ret.value.factors
       IN /\ Len(factors) >= 4
          /\ factors[1] \in StatefulnessTexts
          /\ factors[2] \in DataHandlingTexts
          /\ factors[3] \in DependencyTexts
          /\ factors[4] \in ConcurrencyTexts
          /\ \A i \in 1..Len(factors) :
                factors[i] \in NonScoringTexts => i > 4

\* the stage thresholds as stated
StatedStage(score) ==
    CASE score >= 80 -> "production"
      [] score >= 65 /\ score < 80 -> "growth"
      [] score >= 50 /\ score < 65 -> "watch"
      [] score < 50 -> "mvp"

\* C24: the stage generateLaunchVerdict passes to recommendNextStep follows
\* the score with its own thresholds (production >= 80, growth 65..79, watch
\* 50..64, mvp < 50) and is finer-grained than the status: safe iff
\* production, fix iff mvp, watch iff watch or growth.
StageFinerThanStatus ==
    Judged
    => LET verdict == ret.value
           stage == StatedStage(verdict.confidence_score)
       IN /\ verdict.next_best_step
               = recommendNextStep(call.analysis.stack_detection,
                                   call.analysis.behavior_profile, stage)
          /\ verdict.status = "safe" <=> stage = "production"
          /\ verdict.status = "fix" <=> stage = "mvp"
          /\ verdict.status = "watch" <=> stage \in {"watch", "growth"}

\* A verdict of status watch whose next step is the one of stage growth: the
\* database upgrade, required.
WatchVerdictAtStageGrowth ==
    /\ Judged
    /\ ret.value.status = "watch"
    /\ ret.value.confidence_score >= 65
    /\ ret.value.next_best_step.headline = "Before charging users, switch to managed DB"
    /\ ret.value.next_best_step.upgrade_required

\* C30: a verdict of status fix has a non-empty risk list whose first risk
\* has severity high, so the summary for "fix with no risks" is never
\* produced.
FixVerdictHasHighRisk ==
    (Judged /\ ret.value.status = "fix")
    => /\ Len(ret.value.risks) > 0
       /\ ret.value.risks[1].severity = "high"
       /\ ret.value.one_line_summary
            # "Your app needs improvements before handling production traffic."

\* A verdict of status fix for an app with a medium risk estimate and at
\* most five dependencies: only the concurrency rule gives it a high risk.
FixVerdictByStatefulness ==
    /\ Judged
    /\ ret.value.status = "fix"
    /\ CompleteProfile(call.analysis.behavior_profile)
    /\ call.analysis.behavior_profile.estimated_concurrency_risk = "medium"
    /\ call.analysis.behavior_profile.external_dependency_count <= 5
    /\ ret.value.risks[1].id = "concurrency-risk"

(***************************************************************************)
(* Properties of the failures of the handlers.                             *)
(***************************************************************************)
\* the status texts of a rate-limit response
RateLimitAnswers == {"rate limit exceeded", "Too Many Requests"}

\* the response code a failed fetch of this kind is to end with
StatedCode(answer) ==
    IF answer = "Not Found" THEN 404
    ELSE IF answer \in RateLimitAnswers THEN 429
    ELSE 500

\* C23: when the remote answers "not found" for the repository,
\* handleAnalyze and handleRecheckAnalysis answer 404, and when it answers
\* with a rate-limit response they answer 429; neither ends as 500.
FetchFailuresKeepTheirKind ==
    [][\A remote \in Remotes :
          remote.answer \in {"Not Found"} \cup RateLimitAnswers
          => /\ \A analysisId \in 1..MaxAnalyses :
                    handleAnalyzeFinish(analysisId, remote, NoFault)
                    => response'.code = StatedCode(remote.answer)
             /\ \A userId \in Users, analysisId \in 1..MaxAnalyses :
                    (/\ analysisId \in 1..Len(app_analyses)
                     /\ app_analyses[analysisId].user_id = userId
                     /\ handleRecheckAnalysis(Some(userId), analysisId, remote, NoFault, 0))
                    => response'.code = StatedCode(remote.answer)]_vars

\* C29: a re-check that ends in an error response leaves the stored
\* analyses and the alerts as they were; alerts are added only by re-checks
\* that answer 200 and store the new profile.
FailedRecheckChangesNothing ==
    [][/\ (response'.handler = "handleRecheckAnalysis" /\ response'.code >= 400)
            => (alerts' = alerts /\ app_analyses' = app_analyses)
       /\ (response'.handler = "handleRecheckAnalysis" /\ Len(alerts') > Len(alerts))
            => /\ response'.code = 200
               /\ \A k \in (Len(alerts) + 1)..Len(alerts') :
                    app_analyses'[alerts'[k].analysis_id].behavior_profile
                        # app_analyses[alerts'[k].analysis_id].behavior_profile]_vars

(***************************************************************************)
(* Properties of overlapping re-checks.                                    *)
(***************************************************************************)
\* C28: never two alerts of the same (user, analysis, category) created
\* less than 7 days apart, also when two handleRecheckAnalysis requests for
\* the same analysis overlap, in every interleaving of their alert-history
\* reads and their alert inserts.
CooldownHoldsUnderOverlap ==
    \A i, j \in 1..Len(alerts) :
        (i # j /\ SameAlertKey(alerts[i], alerts[j])
               /\ alerts[i].created_at <= alerts[j].created_at)
            => alerts[j].created_at - alerts[i].created_at >= CooldownDays

(***************************************************************************)
(* Properties of the file sources.                                         *)
(***************************************************************************)
Fetching == ret.fn = "fetchFiles"

InFlight == ret.started \ ret.finished

\* the batch of position k, counted from 0
BatchOf(k) == (k - 1) \div 10

\* C21: during fetchFiles at most 10 file requests are in flight at any
\* moment, and no request of a batch has started unless every request of
\* the batches before it has finished, for any number of files and any
\* completion order.
AtMostTenInFlight ==
    Fetching
    => /\ Cardinality(InFlight) <= 10
       /\ \A k \in ret.started :
            \A j \in 1..Len(FilesToFetch(call.tree)) :
                BatchOf(j) < BatchOf(k) => j \in ret.finished

\* The eleventh request is in flight after the first ten have finished, some
\* stored and some failed.
SecondBatchInFlight ==
    /\ Fetching
    /\ 11 \in InFlight
    /\ Cardinality(ret.files) \in 1..9
    /\ 1..10 \subseteq ret.finished

\* C22: no file larger than the size ceiling (100 KB) ever enters the file
\* map, for the GitHub fetch (tree entries with no size included) and for
\* the ZIP upload.
NoFileAboveCeiling ==
    ret.fn \in {"fetchFiles", "parseZipUpload"}
    => \A file \in ret.files : file.bytes <= SizeCeiling

====
